---------------------------- MODULE Spec2Model ----------------------------
(***************************************************************************)
(* Settings versioning and persistence of the label designer:              *)
(* localStorage snapshot + bounded undo history (storage.js), the per-line *)
(* font settings resolver (font-settings.js), the diff utilities and the   *)
(* repository template loader (repository.js).                             *)
(*                                                                         *)
(* JavaScript values are modelled as tagged pairs <<tag, payload>>:        *)
(*   <<"undef",0>>  <<"null",0>>  <<"bool",b>>  <<"num",n>>  <<"str",s>>   *)
(*   <<"obj", seq of <<key, value>>>>   (own properties, insertion order)  *)
(*   <<"arr", seq of values>>                                              *)
(* A JavaScript string s is a sequence of tokens.  A token is either       *)
(*   <<"c", a>>   a run of ordinary characters a (never a quote or a       *)
(*                backslash); one-character runs are used for the          *)
(*                characters the code looks at: { } [ ] : , and newline;   *)
(*   <<"lit", s>> a quoted string literal of a JSON text, standing for     *)
(*                the quote, the escaped characters of s and the quote;    *)
(*   <<"jobj", m>> the characters of a JSON object: the brace, the members *)
(*                m (pairs of a key and the text of its value) separated   *)
(*                by commas, and the closing brace;                        *)
(*   <<"jarr", t>> the characters of a JSON array of the texts t.          *)
(* Property keys are TLA+ strings.                                         *)
(***************************************************************************)
EXTENDS Integers, Sequences, FiniteSets, TLC

(***************************************************************************)
(* JavaScript values                                                       *)
(***************************************************************************)
Undefined == <<"undef", 0>>
Null == <<"null", 0>>
Bool(b) == <<"bool", b>>
Num(n) == <<"num", n>>
Str(s) == <<"str", s>>
Obj(ps) == <<"obj", ps>>
Arr(es) == <<"arr", es>>

C(a) == <<"c", a>>
Lit(s) == <<"lit", s>>
JObj(members) == <<"jobj", members>>
JArr(texts) == <<"jarr", texts>>
\* the JavaScript string made of the single character run a
S(a) == <<C(a)>>
EmptyStr == <<>>

IsStr(v) == v[1] = "str"
IsObj(v) == v[1] = "obj"
IsArr(v) == v[1] = "arr"

RECURSIVE AtomOf(_)
\* the characters of a string as one TLA+ string; of the text of an object
\* or array only the brackets, which tell it from a name or a number
AtomOf(s) ==
    IF s = <<>> THEN ""
    ELSE (CASE s[1][1] = "lit" -> "\"" \o AtomOf(s[1][2]) \o "\""
            [] s[1][1] = "jobj" -> "{}"
            [] s[1][1] = "jarr" -> "[]"
            [] OTHER -> s[1][2])
         \o AtomOf(Tail(s))

\* ToBoolean: the truthiness used by !, !!, || and if
Truthy(v) ==
    CASE v[1] = "undef" -> FALSE
      [] v[1] = "null" -> FALSE
      [] v[1] = "bool" -> v[2]
      [] v[1] = "num" -> v[2] # 0
      [] v[1] = "str" -> v[2] # <<>>
      [] OTHER -> TRUE

\* a || b
OrElse(a, b) == IF Truthy(a) THEN a ELSE b

(***************************************************************************)
(* Objects: ordered own properties                                         *)
(***************************************************************************)
HasKey(ps, k) == \E i \in 1..Len(ps) : ps[i][1] = k

\* o[k]
GetKey(ps, k) ==
    IF HasKey(ps, k)
    THEN ps[CHOOSE i \in 1..Len(ps) : ps[i][1] = k][2]
    ELSE Undefined

\* o[k] = v : an existing property keeps its position, a new one goes last
SetKey(ps, k, v) ==
    IF HasKey(ps, k)
    THEN [i \in 1..Len(ps) |-> IF ps[i][1] = k THEN <<k, v>> ELSE ps[i]]
    ELSE Append(ps, <<k, v>>)

\* delete o[k]
DelKey(ps, k) == SelectSeq(ps, LAMBDA p : p[1] # k)

(***************************************************************************)
(* JSON.stringify and JSON.parse                                           *)
(***************************************************************************)
\* the sequence f with its elements computed
Elems(f) == f \o <<>>

\* the object that results from assigning the pairs ps in order: a key
\* stands where it was first assigned and holds what was assigned last
FromPairs(ps) ==
    LET first == SelectSeq([i \in 1..Len(ps) |-> i],
                           LAMBDA i : \A j \in 1..(i - 1) : ps[j][1] # ps[i][1])
        lastAt(k) == CHOOSE i \in 1..Len(ps) :
                        /\ ps[i][1] = k
                        /\ \A j \in (i + 1)..Len(ps) : ps[j][1] # k
    IN  IF Cardinality({ps[i][1] : i \in 1..Len(ps)}) = Len(ps) THEN Elems(ps)
        ELSE Elems([m \in 1..Len(first) |->
                       <<ps[first[m]][1], ps[lastAt(ps[first[m]][1])][2]>>])

RECURSIVE Stringify(_)
\* JSON.stringify(v) for a value other than undefined: a property holding
\* undefined is left out, an element that is undefined is written null
Stringify(v) ==
    CASE v[1] = "str" -> <<Lit(v[2])>>
      [] v[1] = "bool" -> <<C(IF v[2] THEN "true" ELSE "false")>>
      [] v[1] = "num" -> <<C(ToString(v[2]))>>
      [] v[1] = "obj" ->
            LET ps == SelectSeq(v[2], LAMBDA p : p[2] # Undefined)
            IN  <<JObj(Elems([i \in 1..Len(ps) |-> <<ps[i][1], Stringify(ps[i][2])>>]))>>
      [] v[1] = "arr" ->
            <<JArr(Elems([i \in 1..Len(v[2]) |-> Stringify(v[2][i])]))>>
      [] OTHER -> <<C("null")>>

Failed == [ok |-> FALSE, v |-> Undefined]
Parsed(val) == [ok |-> TRUE, v |-> val]

Digits == {"0", "1", "2", "3", "4", "5", "6", "7", "8", "9"}

IsDigitString(a) == Len(a) > 0 /\ \A i \in 1..Len(a) : SubSeq(a, i, i) \in Digits

RECURSIVE ParseText(_)
\* the value of the JSON text t: [ok, v], ok = FALSE when t is not the text
\* of one value
ParseText(t) ==
    LET tk == IF Len(t) = 1 THEN t[1] ELSE <<"none", 0>> IN
    CASE tk[1] = "lit" -> Parsed(Str(tk[2]))
      [] tk = C("true") -> Parsed(Bool(TRUE))
      [] tk = C("false") -> Parsed(Bool(FALSE))
      [] tk = C("null") -> Parsed(Null)
      [] tk[1] = "c" /\ IsDigitString(tk[2]) ->
            Parsed(Num(CHOOSE n \in 0..99 : ToString(n) = tk[2]))
      [] tk[1] = "jobj" ->
            LET rs == Elems([i \in 1..Len(tk[2]) |-> ParseText(tk[2][i][2])])
            IN  IF \A i \in 1..Len(rs) : rs[i].ok
                THEN Parsed(Obj(FromPairs([i \in 1..Len(rs) |-> <<tk[2][i][1], rs[i].v>>])))
                ELSE Failed
      [] tk[1] = "jarr" ->
            LET rs == Elems([i \in 1..Len(tk[2]) |-> ParseText(tk[2][i])])
            IN  IF \A i \in 1..Len(rs) : rs[i].ok
                THEN Parsed(Arr(Elems([i \in 1..Len(rs) |-> rs[i].v])))
                ELSE Failed
      [] OTHER -> Failed

\* JSON.parse(x): [ok, v]; ok = FALSE when it throws.  The argument is
\* converted to a string first, so null parses as null.
JSONParse(x) ==
    IF x = Null THEN Parsed(Null)
    ELSE IF ~IsStr(x) THEN Failed
    ELSE ParseText(x[2])

(***************************************************************************)
(* Program constants                                                       *)
(***************************************************************************)
LS_KEY == "labeldesigner_settings_v1"
LS_HISTORY_KEY == "labeldesigner_settings_history_v1"
MAX_HISTORY == 40
DEFAULT_FONT == "Droid Serif,Regular"
SHIPPING_LINE_NAMES == <<"Sender section", "Recipient section">>

(***************************************************************************)
(* The form: the input, select and textarea elements in document order.    *)
(* A checkbox or radio holds Bool(checked); any other element holds what   *)
(* .val() returns: a string, or null for a select with nothing selected.   *)
(***************************************************************************)
Input(id, type, name, val) == [id |-> id, type |-> type, name |-> name, val |-> val]

FormInputs == <<
    Input("label_text", "textarea", "", ""),
    Input("font", "select-one", "", ""),
    Input("font_size", "number", "", ""),
    Input("font_inverted", "checkbox", "", ""),
    Input("font_checkbox", "checkbox", "", ""),
    Input("font_align_left", "radio", "font_align", "left"),
    Input("font_align_center", "radio", "font_align", "center"),
    Input("font_align_right", "radio", "font_align", "right"),
    Input("line_spacing_100", "radio", "line_spacing", "100"),
    Input("line_spacing_150", "radio", "line_spacing", "150"),
    Input("line_spacing_200", "radio", "line_spacing", "200"),
    Input("print_color_black", "radio", "print_color", "black"),
    Input("print_color_red", "radio", "print_color", "red"),
    Input("print_type_text", "radio", "print_type", "text"),
    Input("print_type_shipping", "radio", "print_type", "shipping"),
    Input("sync_font_settings", "checkbox", "", ""),
    Input("lineSelect", "select-one", "", "") >>

InputIds == {FormInputs[i].id : i \in 1..Len(FormInputs)}

\* the <option> values of the #font select
FontOptions == {DEFAULT_FONT, "DejaVu Sans,Book"}

IsCheckable(e) == e.type \in {"checkbox", "radio"}

\* the attribute key under which an element is saved and restored
KeyOfInput(e) == IF e.type = "radio" /\ Len(e.name) > 0 THEN e.name ELSE e.id

\* $('input[name=n]:checked').val(): the first checked radio of the group
CheckedVal(f, n) ==
    LET hits == {i \in 1..Len(FormInputs) :
                    /\ FormInputs[i].type = "radio"
                    /\ FormInputs[i].name = n
                    /\ f[FormInputs[i].id] = Bool(TRUE)}
    IN  IF hits = {} THEN Undefined
        ELSE Str(S(FormInputs[CHOOSE i \in hits : \A j \in hits : i <= j].val))

\* String(v), as used when a value is assigned to an element's value
ToStr(v) ==
    CASE v[1] = "str" -> v[2]
      [] v[1] = "bool" -> S(IF v[2] THEN "true" ELSE "false")
      [] v[1] = "num" -> S(ToString(v[2]))
      [] v[1] = "null" -> S("null")
      [] v[1] = "undef" -> S("undefined")
      [] OTHER -> S("[object Object]")

\* a == b for a string a (a radio's value) and a JSON value b
LooseEq(a, b) ==
    CASE b[1] = "str" -> a = b[2]
      [] b[1] = "num" -> AtomOf(a) = ToString(b[2])
      [] b[1] = "bool" -> AtomOf(a) = (IF b[2] THEN "1" ELSE "0")
      [] OTHER -> FALSE

\* element.value = v : what .val() returns afterwards
AssignValue(e, n, v) ==
    CASE e.type = "textarea" -> Str(IF v = Null THEN EmptyStr ELSE ToStr(v))
      [] e.type = "number" ->
            IF v[1] \in {"str", "num"} /\ IsDigitString(AtomOf(ToStr(v)))
            THEN Str(ToStr(v)) ELSE Str(EmptyStr)
      [] e.id = "font" ->
            IF AtomOf(ToStr(v)) \in FontOptions THEN Str(ToStr(v)) ELSE Null
      [] OTHER ->
            \* #lineSelect, whose options are "0" .. n-1
            IF AtomOf(ToStr(v)) \in {ToString(j) : j \in 0..(n - 1)}
            THEN Str(ToStr(v)) ELSE Null

(***************************************************************************)
(* font-settings.js: the per-line font settings                            *)
(* A user interface state is a record                                      *)
(*   form     the value or checked state of every form element             *)
(*   nopts    the number of <option>s of #lineSelect (values "0"..nopts-1) *)
(*   fsl      fontSettingsPerLine, which is also window.fontSettingsPerLine*)
(*            (a top-level var of a classic script is a window property)   *)
(***************************************************************************)
RECURSIVE SplitFrom(_, _, _)
\* the lines of s from token i on, cur holding the line read so far
SplitFrom(s, i, cur) ==
    IF i > Len(s) THEN <<cur>>
    ELSE IF s[i] = C("\n") THEN <<cur>> \o SplitFrom(s, i + 1, <<>>)
    ELSE SplitFrom(s, i + 1, Append(cur, s[i]))

\* text.split(/\r?\n/)
SplitLines(s) == SplitFrom(s, 1, <<>>)

\* Object.assign({}, v)
CopyObj(v) == IF IsObj(v) THEN v ELSE Obj(<<>>)

\* a[k] for an array a and a property key k given as a JavaScript value
Index(a, k) ==
    LET name == AtomOf(ToStr(k))
        hits == {j \in 1..Len(a[2]) : ToString(j - 1) = name}
    IN  IF hits = {} THEN Undefined ELSE a[2][CHOOSE j \in hits : TRUE]

\* a[k] = v for k naming an existing element
SetIndex(a, k, v) ==
    Arr([j \in 1..Len(a[2]) |->
            IF ToString(j - 1) = AtomOf(ToStr(k)) THEN v ELSE a[2][j]])

\* parseInt(v) || 0
ParseIntOr0(v) ==
    IF v[1] = "str" /\ IsDigitString(AtomOf(v[2]))
    THEN CHOOSE n \in 0..99 : ToString(n) = AtomOf(v[2])
    ELSE 0

\* $('#lineSelect').val(v) on a select with n options
SelectLine(f, n, v) ==
    [f EXCEPT !["lineSelect"] = AssignValue(Input("lineSelect", "select-one", "", ""), n, v)]

CurrentFont(f) ==
    Obj(<< <<"font", OrElse(f["font"], Str(S(DEFAULT_FONT)))>>,
           <<"size", f["font_size"]>>,
           <<"inverted", f["font_inverted"]>>,
           <<"checkbox", f["font_checkbox"]>>,
           <<"align", OrElse(CheckedVal(f, "font_align"), Str(S("center")))>>,
           <<"line_spacing", OrElse(CheckedVal(f, "line_spacing"), Str(S("100")))>>,
           <<"color", OrElse(CheckedVal(f, "print_color"), Str(S("black")))>> >>)

\* o['text'] = t
WithText(o, t) == IF IsObj(o) THEN Obj(SetKey(o[2], "text", Str(t))) ELSE o

RECURSIVE GrowLines(_, _, _, _)
\* the loop that initialises the slots from fsl.length up to n
GrowLines(es, n, selectedLine, currentFont) ==
    IF Len(es) >= n THEN es
    ELSE GrowLines(Append(es, IF Num(Len(es)) = selectedLine \/ selectedLine = Null
                              THEN CopyObj(currentFont)
                              ELSE CopyObj(IF Len(es) >= 1 THEN es[Len(es)] ELSE Undefined)),
                   n, selectedLine, currentFont)

RECURSIVE FillLines(_, _, _)
\* the loop that pushes copies of the last slot until there are n slots
FillLines(es, n, currentFont) ==
    IF Len(es) >= n THEN es
    ELSE FillLines(Append(es, CopyObj(IF Len(es) > 0 THEN es[Len(es)]
                                      ELSE CopyObj(currentFont))),
                   n, currentFont)

\* the user interface state with form f, n line options and settings fsl
Lines(f, n, fsl) == [form |-> f, nopts |-> n, fsl |-> fsl]

\* the slots of a shipping label had their texts been left as they were
KeepTexts(sliced, isSynced, selectedLine, currentFont) ==
    Elems([j \in 1..Len(SHIPPING_LINE_NAMES) |->
              IF isSynced \/ j - 1 = selectedLine THEN CopyObj(currentFont) ELSE sliced[j]])

\* the slots of a shipping label: the current font where synced or
\* selected, then the section names as texts
ShippingSlots(sliced, isSynced, selectedLine, currentFont) ==
    Elems([j \in 1..Len(SHIPPING_LINE_NAMES) |->
              WithText(IF isSynced \/ j - 1 = selectedLine
                       THEN CopyObj(currentFont) ELSE sliced[j],
                       S(SHIPPING_LINE_NAMES[j]))])

\* _setShippingFontSettings once the selected line is known
SetShippingLine(ui, currentFont, selectedLine) ==
    Lines(SelectLine(ui.form, Len(SHIPPING_LINE_NAMES), Num(selectedLine)),
          Len(SHIPPING_LINE_NAMES),
          IF ~IsArr(ui.fsl) THEN ui.fsl
          ELSE Arr(ShippingSlots(
                   SubSeq(FillLines(ui.fsl[2], Len(SHIPPING_LINE_NAMES), currentFont),
                          1, Len(SHIPPING_LINE_NAMES)),
                   ui.form["sync_font_settings"] = Bool(TRUE),
                   selectedLine, currentFont)))

\* the selected line of a shipping label, given parseInt(val) || 0
ShippingLine(sel) == IF sel >= Len(SHIPPING_LINE_NAMES) THEN 0 ELSE sel

_setShippingFontSettings(ui, currentFont) ==
    SetShippingLine(ui, currentFont, ShippingLine(ParseIntOr0(ui.form["lineSelect"])))

RECURSIVE SetTexts(_, _, _)
\* the loop fsl[i]['text'] = lines[i] from slot j on; it stops at a slot
\* that is not an object, where the assignment throws
SetTexts(es, lines, j) ==
    IF j > Len(lines) \/ j > Len(es) \/ ~IsObj(es[j]) THEN es
    ELSE SetTexts([es EXCEPT ![j] = WithText(es[j], lines[j])], lines, j + 1)

\* every slot replaced by a copy of the current font
RestyleAll(cut, selectedLine, currentFont) ==
    [j \in 1..Len(cut) |-> CopyObj(currentFont)]

\* fontSettingsPerLine[selectedLine] = copy of the current font, when the
\* slot exists
Restyle(cut, selectedLine, currentFont) ==
    IF Truthy(Index(Arr(cut), selectedLine))
    THEN SetIndex(Arr(cut), selectedLine, CopyObj(currentFont))[2]
    ELSE cut

\* the settings of a text label whose lines are styled independently
IndependentLines(fsl, lines, selectedLine, currentFont) ==
    IF ~IsArr(fsl) THEN fsl
    ELSE Arr(SetTexts(Restyle(SubSeq(GrowLines(fsl[2], Len(lines), selectedLine,
                                               currentFont),
                                     1, Len(lines)),
                              selectedLine, currentFont),
                      lines, 1))

\* settings in which only the first line gets the current font
SyncedFirstLine(lines, currentFont) ==
    Arr(<<WithText(CopyObj(currentFont), lines[1])>>)

\* the settings of a text label whose lines share the current font
SyncedLines(lines, currentFont) ==
    Arr(Elems([j \in 1..Len(lines) |-> WithText(CopyObj(currentFont), lines[j])]))

\* setFontSettingsPerLine for a text label with the given lines
SetTextLines(ui, currentFont, lines, selectedLine) ==
    Lines(SelectLine(ui.form, Len(lines),
                     IF selectedLine # Null THEN selectedLine ELSE Num(0)),
          Len(lines),
          IF ui.form["sync_font_settings"] = Bool(TRUE)
          THEN SyncedLines(lines, currentFont)
          ELSE IndependentLines(ui.fsl, lines, selectedLine, currentFont))

\* the state setFontSettingsPerLine leaves behind; the current font and the
\* lines of the text are read once
setFontSettingsPerLine(ui) ==
    IF CheckedVal(ui.form, "print_type") = Str(S("shipping"))
    THEN _setShippingFontSettings(ui, CurrentFont(ui.form))
    ELSE CHOOSE after \in
             {SetTextLines(ui, currentFont, lines, ui.form["lineSelect"]) :
                  currentFont \in {CurrentFont(ui.form)},
                  lines \in {SplitLines(OrElse(ui.form["label_text"], Str(EmptyStr))[2])}} :
             TRUE

\* whether setFontSettingsPerLine, which leaves the settings after, threw a
\* TypeError: the sequence is not an array, or a slot whose text is set is
\* not an object
FontSettingsThrows(ui, after) ==
    \/ /\ ~IsArr(ui.fsl)
       /\ \/ CheckedVal(ui.form, "print_type") = Str(S("shipping"))
          \/ ui.form["sync_font_settings"] # Bool(TRUE)
    \/ IsArr(after) /\ \E j \in 1..Len(after[2]) : ~IsObj(after[2][j])

\* gen_label(true) on the form: the call of setFontSettingsPerLine; what
\* gen_label does to the status panel is gen_label below
preview(ui) == setFontSettingsPerLine(ui)

(***************************************************************************)
(* label.js: gen_label and the status panel                                *)
(***************************************************************************)
\* formData(cut_once): the properties read from the elements of the form
\* above and from fontSettingsPerLine; printer_status.red_support is false
formData(ui, cut_once) ==
    Obj(<< <<"text", IF ui.fsl = Undefined THEN Undefined ELSE Str(Stringify(ui.fsl))>>,
           <<"print_type", CheckedVal(ui.form, "print_type")>>,
           <<"cut_once", Num(IF cut_once THEN 1 ELSE 0)>>,
           <<"sync_font_settings",
             Num(IF ui.form["sync_font_settings"] = Bool(TRUE) THEN 1 ELSE 0)>> >>)

\* nothing is shown in #statusPanel
NoStatus == [type |-> "", status |-> ""]

\* setStatus({type, status}) on #statusPanel showing panel: html stays empty
\* for any other status, and type 'status' writes to #printerStatusPanel
setStatus(panel, type, status) ==
    IF type = "status" THEN panel
    ELSE IF type \in {"preview", "printing"} /\ status \in {"pending", "success", "error"}
    THEN [type |-> type, status |-> status]
    ELSE NoStatus

\* a request gen_label has sent: $.ajax, or an upload of the drop zone
Request(via, type) == [via |-> via, type |-> type]

\* label.js as it is loaded
LabelLoaded == [panel |-> NoStatus, last |-> Null, mode |-> "preview", requests |-> <<>>]

\* imageDropZone.processQueue(): the queued file, if there is one, is uploaded
processQueue(s, queued) ==
    IF queued THEN [s EXCEPT !.requests = @ \o <<Request("upload", s.mode)>>] ELSE s

\* gen_label after updateAccordionAvailability, pending being s with the
\* status set and dataJson the stringified form data
Generate(s, pending, printType, queued, isPreview, type, dataJson) ==
    IF printType = Str(S("image"))
    THEN processQueue([pending EXCEPT !.mode = type], queued)
    ELSE IF isPreview /\ dataJson = s.last THEN pending
    ELSE [pending EXCEPT !.last = dataJson,
                         !.requests = @ \o <<Request("ajax", type)>>]

\* gen_label(isPreview, cut_once) where setFontSettingsPerLine has left ui
\* and did not throw; queued tells whether the drop zone has a file queued
gen_label(s, ui, queued, isPreview, cut_once) ==
    \* let type = isPreview ? 'preview' : 'printing'
    LET type == IF isPreview THEN "preview" ELSE "printing"
    IN  Generate(s, [s EXCEPT !.panel = setStatus(@, type, "pending")],
                 CheckedVal(ui.form, "print_type"), queued, isPreview, type,
                 Str(Stringify(formData(ui, cut_once))))

\* the success callback of $.ajax, or of the drop zone, with the response
\* data: refused is data.success === false
Succeeded(s, type, refused) ==
    [s EXCEPT !.panel = setStatus(@, type, IF refused THEN "error" ELSE "success")]

\* the error callback of $.ajax
Errored(s, type) == [s EXCEPT !.panel = setStatus(@, type, "error")]

(***************************************************************************)
(* printer.js: the polling of the printer                                  *)
(***************************************************************************)
SCAN_NORMAL_INTERVAL == 30000
SCAN_FAST_INTERVAL == 2000
SCAN_FAST_DURATION == 60000

\* the delay of the power status update after a toggle
POWER_UPDATE_DELAY == 1000

\* the timers: scan is _printerScanTimer (its id and interval), pending the
\* timeouts that have not run, ids the id handed out last
Timers(scan, pending, ids) == [scan |-> scan, pending |-> pending, ids |-> ids]

\* setInterval(getPrinterStatus, interval), assigned to _printerScanTimer;
\* clearInterval has ended the interval set before
SetScan(t, interval) ==
    [t EXCEPT !.ids = @ + 1, !.scan = [id |-> t.ids + 1, interval |-> interval]]

\* setTimeout(fn, delay)
SetTimeout(t, fn, delay) ==
    [t EXCEPT !.ids = @ + 1,
              !.pending = @ \cup {[id |-> t.ids + 1, fn |-> fn, delay |-> delay]}]

startNormalPrinterPolling(t) == SetScan(t, SCAN_NORMAL_INTERVAL)

startFastPrinterPolling(t) ==
    SetTimeout(SetScan(t, SCAN_FAST_INTERVAL), "startNormalPrinterPolling",
               SCAN_FAST_DURATION)

\* the callback of togglePrinterPower once the response has been parsed
Toggled(t) ==
    startFastPrinterPolling(SetTimeout(t, "updatePrinterPowerStatus", POWER_UPDATE_DELAY))

\* timeout x runs: it is no longer pending
TimedOut(t, x) ==
    IF x.fn = "startNormalPrinterPolling"
    THEN startNormalPrinterPolling([t EXCEPT !.pending = @ \ {x}])
    ELSE [t EXCEPT !.pending = @ \ {x}]

\* whether the browser may run timeout x next: a timeout set earlier with
\* no longer a delay runs before it
MayRun(pending, x) ==
    /\ x \in pending
    /\ \A y \in pending : ~(y.id < x.id /\ y.delay <= x.delay)

\* window.onload: startNormalPrinterPolling() with no timer set before
TimersLoaded == startNormalPrinterPolling(Timers(Null, {}, 0))

(***************************************************************************)
(* storage.js: diff utilities                                              *)
(***************************************************************************)
\* Object.entries(v)
Entries(v) ==
    CASE v[1] = "obj" -> v[2]
      [] v[1] = "arr" -> [j \in 1..Len(v[2]) |-> <<ToString(j - 1), v[2][j]>>]
      [] v[1] = "str" -> [j \in 1..Len(v[2]) |-> <<ToString(j - 1), Str(<<v[2][j]>>)>>]
      [] OTHER -> <<>>

\* value.startsWith('{') && value.endsWith('}') or the same with brackets
LooksLikeJSON(v) ==
    /\ v[1] = "str"
    /\ Len(v[2]) > 0
    /\ LET a == v[2][1]
           z == v[2][Len(v[2])]
       IN  \/ (a[1] = "jobj" \/ a = C("{")) /\ (z[1] = "jobj" \/ z = C("}"))
           \/ (a[1] = "jarr" \/ a = C("[")) /\ (z[1] = "jarr" \/ z = C("]"))

RECURSIVE JoinPath(_)
\* path.join('.')
JoinPath(path) ==
    IF Len(path) = 0 THEN ""
    ELSE IF Len(path) = 1 THEN path[1]
    ELSE path[1] \o "." \o JoinPath(Tail(path))

RECURSIVE Cat(_, _, _)
\* the sequences ss[lo] .. ss[hi] one after the other
Cat(ss, lo, hi) ==
    IF lo > hi THEN <<>>
    ELSE IF lo = hi THEN ss[lo]
    ELSE Cat(ss, lo, (lo + hi) \div 2) \o Cat(ss, (lo + hi) \div 2 + 1, hi)

\* the value dig goes on with: the parsed value of a string that looks like
\* JSON and parses, the string itself otherwise
OrRaw(dec, raw) == IF dec.ok THEN dec.v ELSE raw

Decoded(raw) == IF LooksLikeJSON(raw) THEN OrRaw(JSONParse(raw), raw) ELSE raw

RECURSIVE Dig(_, _), DigEntries(_, _), DigValue(_, _)
\* dig(obj) below the keys of path: the assignments object[...] = value it
\* makes, in order
Dig(path, obj) == DigEntries(path, Entries(obj))

DigEntries(path, es) ==
    Cat(Elems([i \in 1..Len(es) |->
                  DigValue(Append(path, es[i][1]), Decoded(es[i][2]))]),
        1, Len(es))

\* the body of the loop once the value is decoded and the key pushed
DigValue(here, value) ==
    IF IsObj(value) \/ IsArr(value) THEN Dig(here, value)
    ELSE << <<JoinPath(here), value>> >>

\* flattenObject(obj): a flat mapping from dotted paths to leaves
flattenObject(obj) ==
    IF obj = Undefined THEN <<>> ELSE FromPairs(Dig(<<>>, obj))

\* a diff that takes every key of after for added and every key of before
\* for removed
DiffOfAll(before, after) == <<after, <<>>, before>>

\* diffFlatten(before, after) = <<added, changed, removed>>: of the keys of
\* after, those equal in before are dropped from all three, those that
\* differ go to changed, the others stay in added; removed keeps the keys
\* of before that after lacks
diffFlatten(before, after) ==
    LET same(p) == p[2] = GetKey(before, p[1])
        diff == SelectSeq(after, LAMBDA p : ~same(p) /\ HasKey(before, p[1]))
    IN  <<SelectSeq(after, LAMBDA p : ~same(p) /\ ~HasKey(before, p[1])),
          Elems([i \in 1..Len(diff) |->
                    <<diff[i][1], Obj(<< <<"from", GetKey(before, diff[i][1])>>,
                                         <<"to", diff[i][2]>> >>)>>]),
          SelectSeq(before, LAMBDA p : ~HasKey(after, p[1]))>>

\* { added, changed, removed }
DiffObject(d) ==
    Obj(<< <<"added", Obj(d[1])>>, <<"changed", Obj(d[2])>>, <<"removed", Obj(d[3])>> >>)

compareObjects(before, after) ==
    DiffObject(diffFlatten(flattenObject(before), flattenObject(after)))

(***************************************************************************)
(* storage.js: the content hash.  A BigInt is the sequence of its base-256 *)
(* digits, lowest first, without leading zeros; a string that is hashed is *)
(* the sequence of its UTF-16 code units.                                  *)
(***************************************************************************)
RECURSIVE Norm(_)
\* the digits without leading zeros
Norm(x) == IF x # <<>> /\ x[Len(x)] = 0 THEN Norm(SubSeq(x, 1, Len(x) - 1)) ELSE x

\* digit i of x, from 1, zero beyond its length
Digit(x, i) == IF i <= Len(x) THEN x[i] ELSE 0

RECURSIVE BitXor(_, _, _)
\* a ^ b for two numbers below 2^n
BitXor(a, b, n) ==
    IF n = 0 THEN 0
    ELSE ((a + b) % 2) + 2 * BitXor(a \div 2, b \div 2, n - 1)

\* x ^ y
BigXor(x, y) ==
    Norm([i \in 1..(IF Len(x) > Len(y) THEN Len(x) ELSE Len(y)) |->
             BitXor(Digit(x, i), Digit(y, i), 8)])

RECURSIVE SumTo(_, _)
\* f[1] + ... + f[n]
SumTo(f, n) == IF n = 0 THEN 0 ELSE f[n] + SumTo(f, n - 1)

\* the sum of the digit products of x and y that fall in column k
Column(x, y, k) == SumTo([i \in 1..k |-> Digit(x, i) * Digit(y, k + 1 - i)], k)

RECURSIVE Carried(_, _, _)
\* the digits of the number whose columns from i on are cols, carry going in
Carried(cols, i, carry) ==
    IF i > Len(cols)
    THEN (IF carry = 0 THEN <<>> ELSE <<carry % 256>> \o Carried(cols, i, carry \div 256))
    ELSE <<(cols[i] + carry) % 256>> \o Carried(cols, i + 1, (cols[i] + carry) \div 256)

\* x * y
BigMul(x, y) ==
    Norm(Carried([k \in 1..(Len(x) + Len(y)) |-> Column(x, y, k)], 1, 0))

\* a product that is not cut to 64 bits
NoMask(x) == x

\* x & ((1n << 64n) - 1n)
Mask64(x) == Norm(SubSeq(x, 1, IF Len(x) > 8 THEN 8 ELSE Len(x)))

\* BigInt(string.charCodeAt(i)) for a code unit
BigOfUnit(u) == Norm(<<u % 256, u \div 256>>)

\* 14695981039346656037n = 0xcbf29ce484222325
FNV_OFFSET_BASIS == <<37, 35, 34, 132, 228, 156, 242, 203>>

\* 1099511628211n = 0x100000001b3
FNV_PRIME == <<179, 1, 0, 0, 0, 1>>

\* one turn of the loop of generateHash
HashStep(hash, u) == Mask64(BigMul(BigXor(hash, BigOfUnit(u)), FNV_PRIME))

RECURSIVE DivRem(_, _, _, _)
\* x divided by the small number d, from digit i down: <<quotient, rest>>
DivRem(x, d, i, rest) ==
    IF i = 0 THEN <<<<>>, rest>>
    ELSE LET lower == DivRem(x, d, i - 1, (rest * 256 + x[i]) % d)
         IN  <<Append(lower[1], (rest * 256 + x[i]) \div d), lower[2]>>

\* the digits 0-9a-z
Digits36 == "0123456789abcdefghijklmnopqrstuvwxyz"

RECURSIVE Radix36(_)
\* the base-36 digits of x > 0, highest first
Radix36(x) ==
    IF x = <<>> THEN ""
    ELSE LET qr == DivRem(x, 36, Len(x), 0)
         IN  Radix36(Norm(qr[1])) \o SubSeq(Digits36, qr[2] + 1, qr[2] + 1)

\* hash.toString(36)
ToString36(x) == IF x = <<>> THEN "0" ELSE Radix36(x)

RECURSIVE HashFrom(_, _, _)
\* the loop of generateHash from unit i on
HashFrom(hash, units, i) ==
    IF i > Len(units) THEN hash
    ELSE HashFrom(HashStep(hash, units[i]), units, i + 1)

\* generateHash(string) for the string with the given code units
generateHash(units) == ToString36(HashFrom(FNV_OFFSET_BASIS, units, 1))

(***************************************************************************)
(* label.js: the files of imageDropZone.  A file is a record of its name,  *)
(* its type, its bytes in base64, and dataURL, which Dropzone sets when    *)
(* the thumbnail of the file is made; all four are JavaScript values.  A   *)
(* data URL is the string of the tokens data: type ; base64 , bytes        *)
(***************************************************************************)
File(name, type, b64, dataURL) ==
    [name |-> name, type |-> type, b64 |-> b64, dataURL |-> dataURL]

\* FileReader.readAsDataURL(file)
DataUrlOf(type, b64) ==
    Str(<<C("data:")>> \o type[2] \o <<C(";"), C("base64"), C(",")>> \o b64[2])

\* the first position of token c in s from position i on, 0 when there is
\* none
IndexFrom(s, c, i) ==
    IF \E j \in i..Len(s) : s[j] = c
    THEN CHOOSE j \in i..Len(s) : s[j] = c /\ \A k \in i..(j - 1) : s[k] # c
    ELSE 0

\* header.split(';')[0]
BeforeSemicolon(header) ==
    IF IndexFrom(header, C(";"), 1) = 0 THEN header
    ELSE SubSeq(header, 1, IndexFrom(header, C(";"), 1) - 1)

\* parseDataUrl(dataUrl) for a string; the first token is the five
\* characters that substring(5, comma) skips
parseDataUrl(s) ==
    IF IndexFrom(s, C(","), 1) = 0 THEN [mime |-> Null, b64 |-> Null]
    ELSE [mime |-> Str(BeforeSemicolon(SubSeq(s, 2, IndexFrom(s, C(","), 1) - 1))),
          b64 |-> Str(SubSeq(s, IndexFrom(s, C(","), 1) + 1, Len(s)))]

\* charCodeAt for the characters of the base64 texts used
CharCode ==
    [c \in {"A", "Q", "g", "w", "="} |->
        CASE c = "A" -> 65 [] c = "Q" -> 81 [] c = "g" -> 103 [] c = "w" -> 119
          [] OTHER -> 61]

\* the UTF-16 code units of a string
CodeUnits(s) == [i \in 1..Len(AtomOf(s)) |-> CharCode[SubSeq(AtomOf(s), i, i)]]

(***************************************************************************)
(* storage.js: the image store.  The object store images of the database   *)
(* brother_ql_images is a function from the keys present to the records    *)
(* {mime, b64}.  A request on it ends as outcome says: "done" (the request *)
(* is carried out), "open" (the database cannot be opened) or "request"    *)
(* (the request fails for a reason of the store).  A promise that has      *)
(* settled is a record of how ("resolve" or "reject") and the value.       *)
(***************************************************************************)
Resolved(v) == [how |-> "resolve", value |-> v]
Rejected == [how |-> "reject", value |-> Undefined]

\* the key under which a reference is looked up; only strings are keys of
\* records
KeyOfRef(id) == IF IsStr(id) THEN AtomOf(id[2]) ELSE ""

\* a promise that keeps its rejection
Uncaught(p) == p

\* .catch(() => null)
Caught(p) == IF p.how = "reject" THEN Resolved(Null) ELSE p

\* a write that replaces the record under the key, as store.put does
PutImage(images, key, record, outcome) ==
    IF outcome # "done" THEN [images |-> images, promise |-> Rejected]
    ELSE [images |-> [k \in (DOMAIN images) \cup {key} |->
                          IF k = key THEN record ELSE images[k]],
          promise |-> Resolved(Bool(TRUE))]

\* a write whose key depends on the type of the record as well
AddByType(images, key, record, outcome) ==
    IF outcome # "done" THEN [images |-> images, promise |-> Rejected]
    ELSE IF (key \o AtomOf(record.mime[2])) \in DOMAIN images
    THEN [images |-> images, promise |-> Resolved(Bool(FALSE))]
    ELSE [images |-> [k \in (DOMAIN images) \cup {key \o AtomOf(record.mime[2])} |->
                          IF k = key \o AtomOf(record.mime[2]) THEN record
                          ELSE images[k]],
          promise |-> Resolved(Bool(TRUE))]

\* store.add(record, key) and the handlers of _saveImageToDB: a key that is
\* present is a ConstraintError, which resolves with false
AddImage(images, key, record, outcome) ==
    IF outcome # "done" THEN [images |-> images, promise |-> Rejected]
    ELSE IF key \in DOMAIN images
    THEN [images |-> images, promise |-> Resolved(Bool(FALSE))]
    ELSE [images |-> [k \in (DOMAIN images) \cup {key} |->
                          IF k = key THEN record ELSE images[k]],
          promise |-> Resolved(Bool(TRUE))]

\* _saveImageToDB(id, mime, b64)
SaveImageToDB(images, id, mime, b64, outcome) ==
    [images |-> AddImage(images, KeyOfRef(id), [mime |-> mime, b64 |-> b64],
                         outcome).images,
     promise |-> Caught(AddImage(images, KeyOfRef(id), [mime |-> mime, b64 |-> b64],
                                 outcome).promise)]

\* store.get(id) and the handlers of _getImageFromDB: result || null
GetImage(images, id, outcome) ==
    IF outcome # "done" THEN Rejected
    ELSE IF KeyOfRef(id) \in DOMAIN images
    THEN Resolved(Obj(<< <<"mime", images[KeyOfRef(id)].mime>>,
                         <<"b64", images[KeyOfRef(id)].b64>> >>))
    ELSE Resolved(Null)

\* _getImageFromDB(id)
GetImageFromDB(images, id, outcome) == Caught(GetImage(images, id, outcome))

\* an operation on the image store that a handler has started: the write
\* of a save, or the read of a restore, which goes on to fetch the record
Task(kind, id, mime, b64, name, stage) ==
    [kind |-> kind, id |-> id, mime |-> mime, b64 |-> b64, name |-> name, stage |-> stage]

(***************************************************************************)
(* storage.js: settings persistence.  A machine state w is a record        *)
(*   ls        localStorage: a function from the keys present to strings   *)
(*   ui        the user interface state (form, nopts, fsl)                 *)
(*   restoring current_restoring                                           *)
(*   counter   the text of #undoCounter                                    *)
(*   disabled  the disabled property of #undoSettingsBtn                   *)
(*   console   what the running handler has written to the console         *)
(*   threw     whether the running handler has thrown                      *)
(*   micro     the number of promise callbacks queued as microtasks        *)
(*   files     imageDropZone.files                                         *)
(*   started   the operations on the image store that the handler started  *)
(***************************************************************************)
getItem(ls, k) == IF k \in DOMAIN ls THEN ls[k] ELSE Null

setItem(ls, k, text) ==
    [x \in (DOMAIN ls) \cup {k} |-> IF x = k THEN Str(text) ELSE ls[x]]

removeItem(ls, k) == [x \in (DOMAIN ls) \ {k} |-> ls[x]]

Log(w, level, v) == [w EXCEPT !.console = Append(@, <<level, v>>)]

Throw(w) == [w EXCEPT !.threw = TRUE]

\* what || [] makes of the parsed history, [] when JSON.parse throws
HistoryOr(dec) == IF dec.ok THEN OrElse(dec.v, Arr(<<>>)) ELSE Arr(<<>>)

\* JSON.parse(localStorage.getItem(LS_HISTORY_KEY)) || [], [] when it throws
ReadHistory(ls) == HistoryOr(JSONParse(getItem(ls, LS_HISTORY_KEY)))

\* history.length, -1 standing for undefined
LengthOf(history) == IF IsArr(history) \/ IsStr(history) THEN Len(history[2]) ELSE -1

\* history[i] for i from 0
At(history, i) ==
    IF i < 0 \/ i >= LengthOf(history) THEN Undefined
    ELSE IF IsArr(history) THEN history[2][i + 1]
    ELSE Str(<<history[2][i + 1]>>)

\* history[history.length - 1]
LastOf(history) == At(history, LengthOf(history) - 1)

\* a count of the entries instead of the steps
StepsAsLength(length) == length

\* Math.max(0, length - 1); it is NaN for an undefined length, and the
\* counter then reads "NaN", which -1 stands for
Steps(length) == IF length < 0 THEN -1 ELSE IF length - 1 > 0 THEN length - 1 ELSE 0

\* the counter text and the disabled property for the given steps
ShowSteps(w, steps) == [w EXCEPT !.counter = steps, !.disabled = (steps = 0)]

updateUndoButton(w) == ShowSteps(w, Steps(LengthOf(ReadHistory(w.ls))))

\* the loop of saveAllSettingsToLocalStorage over the form elements: the
\* elements that assign to data, in document order; the class active is
\* put on the labels of the radios, never on the parent of one
Saved(f) ==
    SelectSeq(FormInputs,
              LAMBDA e : /\ e.id # "lineSelect"
                         /\ Len(KeyOfInput(e)) > 0
                         /\ e.type = "radio" => f[e.id] = Bool(TRUE))

SavedValue(f, e) == IF e.type = "radio" THEN Str(S(e.val)) ELSE f[e.id]

SavedPairs(f, saved) ==
    FromPairs([i \in 1..Len(saved) |-> <<KeyOfInput(saved[i]), SavedValue(f, saved[i])>>])

CollectInputs(f) == SavedPairs(f, Saved(f))

\* the snapshot saveAllSettingsToLocalStorage assembles
SnapshotOf(ui) ==
    Obj(IF Truthy(ui.fsl)
        THEN SetKey(CollectInputs(ui.form), "fontSettingsPerLine",
                    Str(Stringify(ui.fsl)))
        ELSE CollectInputs(ui.form))

\* a history that is never cut
EvictNothing(es) == es

\* a history cut at its newest end
EvictNewest(es) == IF Len(es) > MAX_HISTORY THEN SubSeq(es, 1, MAX_HISTORY) ELSE es

\* history.slice(history.length - MAX_HISTORY) when the history is too long
Evict(es) ==
    IF Len(es) > MAX_HISTORY THEN SubSeq(es, Len(es) - MAX_HISTORY + 1, Len(es))
    ELSE es

\* a save that appends whatever the last entry is
AlwaysNew(history, this_settings) == TRUE

\* whether the snapshot is appended to the history
IsNewEntry(history, this_settings) ==
    \/ LengthOf(history) = 0
    \/ LastOf(history) = Undefined
    \/ Stringify(LastOf(history)) # this_settings

\* a handler that logs no diff
LogNothing(w, before, after) == w

\* console.debug of the diff
LogDiff(w, before, after) == Log(w, "debug", compareObjects(before, after))

\* history.push(data), the slice and the write of the history
PushHistory(w, history, data, fail) ==
    IF ~IsArr(history) THEN Throw(w)
    ELSE IF fail = "second" THEN Throw(w)
    ELSE updateUndoButton(
             [w EXCEPT !.ls = setItem(@, LS_HISTORY_KEY,
                                      Stringify(Arr(Evict(Append(history[2], data)))))])

\* the history part of saveAllSettingsToLocalStorage
SaveHistory(w, history, data, this_settings, fail) ==
    IF ~IsNewEntry(history, this_settings) THEN updateUndoButton(w)
    ELSE PushHistory(LogDiff(w, LastOf(history), data), history, data, fail)

\* saveAllSettingsToLocalStorage from the write of the snapshot on
SaveSnapshot(w, data, this_settings, fail) ==
    IF fail = "first" THEN Throw(w)
    ELSE SaveHistory([w EXCEPT !.ls = setItem(@, LS_KEY, this_settings)],
                     ReadHistory(w.ls), data, this_settings, fail)

SaveData(w, data, fail) == SaveSnapshot(w, data, Stringify(data), fail)

\* the image block once the hash is computed: the write to the image store
\* is started and data gains the reference, the type and the name
SaveHashed(w, data, f, parsed, imageHash, fail) ==
    SaveData([w EXCEPT !.started = Append(@, Task("save", imageHash, parsed.mime,
                                                  parsed.b64, Null, "db"))],
             Obj(SetKey(SetKey(SetKey(data[2], "image_ref", imageHash),
                               "image_mime", parsed.mime),
                        "image_name", OrElse(f.name, Str(S("image"))))),
             fail)

\* the image block once the data URL is parsed
SaveParsed(w, data, f, parsed, fail) ==
    IF ~Truthy(parsed.b64) THEN SaveData(w, data, fail)
    ELSE CHOOSE after \in {SaveHashed(w, data, f, parsed, Str(S(imageHash)), fail) :
                                imageHash \in {generateHash(CodeUnits(parsed.b64[2]))}} :
             TRUE

\* the try block that stores the attached image; parseDataUrl throws on a
\* file without dataURL, which is caught and logged
SaveWithImage(w, data, fail) ==
    IF Len(w.files) = 0 THEN SaveData(w, data, fail)
    ELSE IF ~IsStr(w.files[1].dataURL)
    THEN SaveData(Log(w, "debug", Str(S("No image to save to localStorage"))), data, fail)
    ELSE SaveParsed(w, data, w.files[1], parseDataUrl(w.files[1].dataURL[2]), fail)

\* saveAllSettingsToLocalStorage(); fail names the write that localStorage
\* refuses (it throws QuotaExceededError): "none", "first" or "second"
saveAllSettingsToLocalStorage(w, fail) == SaveWithImage(w, SnapshotOf(w.ui), fail)

\* the form element with the given id
Element(id) == FormInputs[CHOOSE i \in 1..Len(FormInputs) : FormInputs[i].id = id]

\* what the loop of restoreAllSettingsFromLocalStorage leaves in element e
\* when data holds v under its key; n is the number of line options
RestoredValue(e, n, v) ==
    IF e.type = "checkbox" THEN Bool(Truthy(v))
    ELSE IF e.type = "radio" THEN Bool(LooseEq(S(e.val), v))
    ELSE AssignValue(e, n, v)

\* a loop that assigns to every element, whether its key is in data or not
RestoredWhole(f, data, n, e) == RestoredValue(e, n, GetKey(data, KeyOfInput(e)))

\* an element whose key is not in data is left as it is
Restored(f, data, n, e) ==
    IF ~HasKey(data, KeyOfInput(e)) THEN f[e.id]
    ELSE RestoredValue(e, n, GetKey(data, KeyOfInput(e)))

\* console.log(key + ': ' + data[key]) for the elements given
RestoreLog(data, logged) ==
    [i \in 1..Len(logged) |->
        <<"log", Str(S(KeyOfInput(logged[i])) \o S(": ")
                     \o ToStr(GetKey(data, KeyOfInput(logged[i]))))>>]

\* the loop of restoreAllSettingsFromLocalStorage over the form elements
RestoreInputs(w, data) ==
    [w EXCEPT !.ui.form = [id \in InputIds |-> Restored(w.ui.form, data, w.ui.nopts,
                                                         Element(id))],
              !.console = @ \o RestoreLog(data,
                  SelectSeq(FormInputs,
                            LAMBDA e : HasKey(data, KeyOfInput(e)) /\ ~IsCheckable(e)))]

\* the try block that restores fontSettingsPerLine, once the string is
\* parsed; what preview() throws is caught
RestoreParsed(w, dec) ==
    IF ~dec.ok THEN w
    ELSE [w EXCEPT !.ui = preview([@ EXCEPT !.fsl = dec.v,
                                            !.form = SelectLine(@, w.ui.nopts, Num(0))]),
                   !.console = Append(@, <<"log", dec.v>>)]

RestoreFontSettings(w, data) ==
    IF ~Truthy(GetKey(data, "fontSettingsPerLine")) \/ w.ui.fsl = Undefined THEN w
    ELSE RestoreParsed(w, JSONParse(GetKey(data, "fontSettingsPerLine")))

\* queueing the callback of imageRestorePromise.finally
QueueSettle(w) == [w EXCEPT !.micro = @ + 1]

\* the image block of restoreAllSettingsFromLocalStorage: with a reference
\* the read of the image store is started and the callback waits for it
RestoreImage(w, data) ==
    IF ~Truthy(GetKey(data, "image_ref")) THEN QueueSettle(w)
    ELSE [w EXCEPT !.started =
              Append(@, Task("get", GetKey(data, "image_ref"), Null, Null,
                             OrElse(GetKey(data, "image_name"), Str(S("image"))),
                             "db"))]

\* restoreAllSettingsFromLocalStorage once the snapshot is parsed
RestoreData(w, dec) ==
    IF ~dec.ok THEN w
    ELSE IF IsArr(dec.v) THEN QueueSettle([w EXCEPT !.restoring = TRUE])
    ELSE IF ~IsObj(dec.v) THEN Throw([w EXCEPT !.restoring = TRUE])
    ELSE CHOOSE end \in
             {RestoreImage(RestoreFontSettings(inputs, dec.v[2]), dec.v[2]) :
                  inputs \in {RestoreInputs([w EXCEPT !.restoring = TRUE], dec.v[2])}} :
             TRUE

\* restoreAllSettingsFromLocalStorage() up to the point where it returns
restoreAllSettingsFromLocalStorage(w) ==
    IF ~Truthy(getItem(w.ls, LS_KEY)) THEN w
    ELSE CHOOSE end \in {RestoreData(w, dec) : dec \in {JSONParse(getItem(w.ls, LS_KEY))}} :
             TRUE

\* the callback of imageRestorePromise.finally: preview(), and the flag
\* is cleared unless preview() threw; after is what preview() leaves
Settle(w, after) ==
    [w EXCEPT !.ui = after,
              !.restoring = IF FontSettingsThrows(w.ui, after.fsl) THEN @ ELSE FALSE,
              !.micro = @ - 1]

RestoreSettled(w) ==
    CHOOSE end \in {Settle(w, after) : after \in {preview(w.ui)}} : TRUE

\* the microtask checkpoint after a handler: the queued callbacks run
\* before any other event is handled
RunMicrotasks(w) == IF w.micro > 0 THEN RestoreSettled(w) ELSE w

\* imageRestorePromise settles and the callback of finally runs on what the
\* callbacks before it have left
FinallyRuns(w) ==
    CHOOSE end \in {RunMicrotasks(QueueSettle(left)) : left \in {w}} : TRUE

\* the catch of the save after the promise of _saveImageToDB has settled
ImageSaved(w, promise) ==
    IF promise.how = "reject"
    THEN Log(w, "debug", Str(S("Failed saving image to IndexedDB")))
    ELSE w

\* the record is one to fetch
HasBytes(record) == Truthy(record) /\ IsObj(record) /\ Truthy(GetKey(record[2], "b64"))

\* the task of a read whose record is being fetched
Fetching(t, record) ==
    Task("get", t.id, OrElse(GetKey(record[2], "mime"), Str(S("image/png"))),
         GetKey(record[2], "b64"), t.name, "fetch")

\* the callbacks of the restore after the promise of _getImageFromDB has
\* settled: a record with bytes is fetched, anything else ends the restore
ImageRead(w, promise) ==
    IF promise.how = "reject"
    THEN FinallyRuns(Log(w, "debug", Str(S("Failed to read image from IndexedDB"))))
    ELSE IF HasBytes(promise.value) THEN w
    ELSE FinallyRuns(w)

\* removeAllFiles(true) and addFile(file): the file replaces what is
\* attached, and the removedfile and accept handlers call preview(); what
\* they throw is caught
Attach(w, file) == [w EXCEPT !.files = <<file>>, !.ui = preview(@)]

\* the callbacks of the restore after fetch has settled: the blob is
\* attached as a file, or the failure is logged; then the restore ends
ImageFetched(w, t, outcome) ==
    IF outcome = "done"
    THEN FinallyRuns(Attach(w, File(t.name, t.mime, t.b64, Undefined)))
    ELSE FinallyRuns(Log(w, "debug",
                         Str(S("Failed to fetch blob from IndexedDB dataUrl"))))

\* a pop that takes two entries
PopTwice(es) == SubSeq(es, 1, Len(es) - 2)

\* history.pop()
Pop(es) == SubSeq(es, 1, Len(es) - 1)

\* a guard that lets a history of one entry through
ShortOfOne(length) == length >= 0 /\ length < 1

\* if (history.length < 2) return
TooShort(length) == length >= 0 /\ length < 2

\* the end of undoSettings: the restore has run, the undo button follows
UndoRestore(w) == IF w.threw THEN w ELSE updateUndoButton(w)

\* undoSettings from the writes on; popped is the history after the pop
UndoWrite(w, popped, fail) ==
    IF fail = "first" THEN Throw(w)
    ELSE IF fail = "second"
    THEN Throw([w EXCEPT !.ls = setItem(@, LS_HISTORY_KEY, Stringify(popped))])
    ELSE UndoRestore(restoreAllSettingsFromLocalStorage(
             [w EXCEPT !.ls = setItem(setItem(@, LS_HISTORY_KEY, Stringify(popped)),
                                      LS_KEY, Stringify(LastOf(popped)))]))

\* undoSettings once the history is read
UndoHistory(w, history, fail) ==
    IF TooShort(LengthOf(history)) THEN w
    ELSE IF ~IsArr(history)
    THEN Throw(LogDiff(w, LastOf(history), At(history, LengthOf(history) - 2)))
    ELSE UndoWrite(LogDiff(w, LastOf(history), At(history, LengthOf(history) - 2)),
                   Arr(Pop(history[2])), fail)

\* undoSettings(); fail names the write that localStorage refuses
undoSettings(w, fail) == UndoHistory(w, ReadHistory(w.ls), fail)

(***************************************************************************)
(* repository.js                                                           *)
(***************************************************************************)
\* data['fontSettingsPerLine'] = data['text'] || '[]'
WithFontSettings(data) ==
    Obj(SetKey(data[2], "fontSettingsPerLine",
               OrElse(GetKey(data[2], "text"), Str(<<JArr(<<>>)>>))))

\* the try block of the callback: the write of the snapshot
StoreTemplate(w, data, fail) ==
    IF fail = "none" /\ IsObj(data)
    THEN [w EXCEPT !.ls = setItem(@, LS_KEY, Stringify(WithFontSettings(data)))]
    ELSE w

\* the callback of repoLoad that receives the template data; a refused
\* write is caught, what the restore throws ends the callback
repoLoad(w, data, fail) == restoreAllSettingsFromLocalStorage(StoreTemplate(w, data, fail))

\* the handler of change and input events on the form elements, after
\* being what setFontSettingsPerLine leaves
Changed(w, after, fail) ==
    IF FontSettingsThrows(w.ui, after.fsl) THEN Throw([w EXCEPT !.ui = after])
    ELSE saveAllSettingsToLocalStorage([w EXCEPT !.ui = after], fail)

OnChange(w, fail) == Changed(w, setFontSettingsPerLine(w.ui), fail)

(***************************************************************************)
(* font-settings.js: the change handler of #lineSelect                     *)
(***************************************************************************)
\* fs.k for the slot fs
FieldOf(fs, k) == IF IsObj(fs) THEN GetKey(fs[2], k) ELSE Undefined

\* $('input[name=n]').prop('checked', false), then the radio of the group
\* whose value attribute is '' + v is checked
CheckByValue(f, n, v) ==
    [x \in InputIds |->
        IF Element(x).type = "radio" /\ Element(x).name = n
        THEN Bool(S(Element(x).val) = ToStr(v))
        ELSE f[x]]

\* whether the selector input[name=n][value=v] matches a radio
MatchesRadio(n, v) ==
    \E i \in 1..Len(FormInputs) :
        /\ FormInputs[i].type = "radio"
        /\ FormInputs[i].name = n
        /\ S(FormInputs[i].val) = ToStr(v)

\* .trigger('change') on the radio that was checked: the handler init2 has
\* bound to the document resolves the settings and saves them
TriggerChange(w, n, v) ==
    IF MatchesRadio(n, v) THEN OnChange(w, "none") ELSE w

\* one radio group of the handler: all unchecked, the radio of value v
\* checked and its change event triggered; what a triggered handler throws
\* ends the handler of #lineSelect
LoadRadio(w, n, v) ==
    IF w.threw THEN w
    ELSE CHOOSE end \in {TriggerChange(checked, n, v) :
                            checked \in {[w EXCEPT !.ui.form = CheckByValue(@, n, v)]}} : TRUE

\* $('#id').prop('checked', v)
LoadChecked(w, id, v) ==
    IF w.threw THEN w ELSE [w EXCEPT !.ui.form[id] = Bool(Truthy(v))]

\* $('#id').val(v)
LoadValue(w, id, v) ==
    [w EXCEPT !.ui.form[id] = AssignValue(Element(id), w.ui.nopts, v)]

\* the style of slot fs put into #font and #font_size
LoadFont(w, fs) ==
    LoadValue(LoadValue(w, "font", OrElse(FieldOf(fs, "font"), Str(S(DEFAULT_FONT)))),
              "font_size", FieldOf(fs, "size"))

\* the controls take the style of slot fs, in the order of the handler;
\* each step works on what the step before it has left
LoadControls(w, fs) ==
    CHOOSE end \in
        {LoadChecked(colored, "font_checkbox", FieldOf(fs, "checkbox")) :
           colored \in
             {LoadRadio(LoadChecked(spaced, "font_inverted", FieldOf(fs, "inverted")),
                        "print_color", FieldOf(fs, "color")) :
                spaced \in
                  {LoadRadio(aligned, "line_spacing", FieldOf(fs, "line_spacing")) :
                     aligned \in {LoadRadio(LoadFont(w, fs), "font_align",
                                            FieldOf(fs, "align"))}}}} : TRUE

\* the change handler of #lineSelect: parseInt of the value, and nothing
\* when it is NaN or the settings have no slot there
lineSelectChange(w) ==
    IF \/ ~IsStr(w.ui.form["lineSelect"])
       \/ ~IsDigitString(AtomOf(w.ui.form["lineSelect"][2]))
       \/ ~IsArr(w.ui.fsl)
       \/ ~Truthy(Index(w.ui.fsl, w.ui.form["lineSelect"]))
    THEN w
    ELSE CHOOSE end \in {LoadControls(w, fs) :
                            fs \in {Index(w.ui.fsl, w.ui.form["lineSelect"])}} : TRUE

(***************************************************************************)
(* The state machine                                                       *)
(***************************************************************************)
VARIABLES
    localStorage,         \* the keys present and their strings
    form,                 \* value or checked state of every form element
    lineOptions,          \* the number of <option>s of #lineSelect
    fontSettingsPerLine,  \* the per-line font settings
    current_restoring,    \* the flag of storage.js
    undoCounter,          \* the text of #undoCounter (-1 for NaN)
    undoDisabled,         \* the disabled property of #undoSettingsBtn
    console,              \* what the last handler wrote to the console
    last,                 \* the last handler run and what it did
    calls,                \* saves so far, each differing from the one before,
                          \* counted from the empty history; -1 once another
                          \* operation or an equal save has come between
    files,                \* imageDropZone.files
    images,               \* the object store images: keys present, records
    tasks,                \* the operations on the image store in flight
    settled,              \* the promise of the image store, or of a fetch,
                          \* that the last step settled, if it settled one
    call,                 \* the call of a utility function that is being
                          \* evaluated on its own: arguments, position, result
    statusPanel,          \* what #statusPanel shows: request type and status
    lastPreviewData,      \* label.js: the data of the preview requested last
    dropZoneMode,         \* label.js: what the drop zone uploads for
    requests,             \* the requests of gen_label in flight
    printerScanTimer,     \* printer.js: the interval that polls the printer
    timeouts,             \* the setTimeout callbacks that have not run yet
    toggles,              \* the power toggle requests in flight
    timerIds              \* the timer id handed out last

\* the state of the page
page == <<localStorage, form, lineOptions, fontSettingsPerLine, current_restoring,
          undoCounter, undoDisabled, console, last, calls, files, images, tasks,
          settled>>

\* the status panel of label.js with what gen_label keeps; it is followed
\* under SpecStatus, the other specifications leave it as init2 left it
label == <<statusPanel, lastPreviewData, dropZoneMode, requests>>

\* the timers of printer.js; they are followed under SpecPolling
polling == <<printerScanTimer, timeouts, toggles, timerIds>>

vars == <<page, call, label, polling>>

\* no utility function is being evaluated on its own
NoCall == [fn |-> "none"]

\* the longest run of saves that is counted
MaxCalls == 42

\* the label texts the user enters
Texts == {S("a"), <<C("a"), C("\n"), C("b")>>}

\* the elements as set_all_inputs_default leaves them on a fresh profile
FormDefault(synced) ==
    [id \in InputIds |->
        CASE id = "label_text" -> Str(EmptyStr)
          [] id = "font" -> Str(S(DEFAULT_FONT))
          [] id = "font_size" -> Str(S("70"))
          [] id = "font_align_center" -> Bool(TRUE)
          [] id = "line_spacing_100" -> Bool(TRUE)
          [] id = "print_color_black" -> Bool(TRUE)
          [] id = "print_type_text" -> Bool(TRUE)
          [] id = "sync_font_settings" -> Bool(synced)
          [] id = "lineSelect" -> Null
          [] OTHER -> Bool(FALSE)]

\* a line style as the server stores it
TemplateStyle(text) == WithText(CurrentFont(FormDefault(FALSE)), text)

\* the templates the repository serves
Templates == {
    Obj(<< <<"name", Str(S("t1"))>>,
           <<"label_text", Str(S("a"))>>,
           <<"text", Str(Stringify(Arr(<<TemplateStyle(S("a"))>>)))>> >>),
    Obj(<< <<"name", Str(S("t2"))>>,
           <<"label_text", Str(<<C("a"), C("\n"), C("b")>>)>>,
           <<"text", Str(Stringify(Arr(<<TemplateStyle(S("a")),
                                        TemplateStyle(S("b"))>>)))>> >>) }

\* the machine state at the start of a handler
World ==
    [ls |-> localStorage,
     ui |-> Lines(form, lineOptions, fontSettingsPerLine),
     restoring |-> current_restoring,
     counter |-> undoCounter,
     disabled |-> undoDisabled,
     console |-> <<>>,
     threw |-> FALSE,
     micro |-> 0,
     files |-> files,
     started |-> <<>>]

\* the count of consecutive differing saves after handler op ended in w
Counted(op, w) ==
    IF /\ op = "save"
       /\ calls >= 0
       /\ calls < MaxCalls
       /\ ~w.threw
       /\ getItem(w.ls, LS_KEY) # getItem(localStorage, LS_KEY)
    THEN calls + 1 ELSE -1

\* the step settled no promise
NoPromise ==
    [task |-> Task("none", Null, Null, Null, Null, "none"), outcome |-> "none",
     how |-> "none", value |-> Undefined]

\* what label.js keeps is s
LabelIs(s) ==
    /\ statusPanel = s.panel
    /\ lastPreviewData = s.last
    /\ dropZoneMode = s.mode
    /\ requests = s.requests

\* the timers are as window.onload leaves them, no toggle is in flight
PollingLoaded ==
    /\ printerScanTimer = TimersLoaded.scan
    /\ timeouts = TimersLoaded.pending
    /\ timerIds = TimersLoaded.ids
    /\ toggles = 0

\* nothing attached, an empty image store, nothing in flight
NoAssets ==
    /\ files = <<>>
    /\ images = <<>>
    /\ tasks = <<>>
    /\ settled = NoPromise

\* the page is as handler op has left it in w
PageSet(op, w) ==
    /\ localStorage' = w.ls
    /\ form' = w.ui.form
    /\ lineOptions' = w.ui.nopts
    /\ fontSettingsPerLine' = w.ui.fsl
    /\ current_restoring' = w.restoring
    /\ undoCounter' = w.counter
    /\ undoDisabled' = w.disabled
    /\ console' = w.console
    /\ last' = [op |-> op, threw |-> w.threw]
    /\ calls' = Counted(op, w)
    /\ files' = w.files
    /\ call' = call
    /\ UNCHANGED polling

\* the same where the status panel is not followed
PageIs(op, w) == PageSet(op, w) /\ UNCHANGED label

\* the page after handler op ended in w
PageBecomes(op, w) == \E end \in {w} : PageIs(op, end)

\* the machine state w at the end of handler op becomes the next state; the
\* operations the handler started are in flight
Becomes(op, w) ==
    \E end \in {w} :
        /\ PageIs(op, end)
        /\ images' = images
        /\ tasks' = tasks \o end.started
        /\ settled' = NoPromise

\* init2() on a fresh profile: defaults, nothing to restore, undo button,
\* first preview; whether #sync_font_settings starts checked is its
\* data-default attribute, which the page template decides
Started(ui) ==
    /\ localStorage = <<>>
    /\ form = ui.form
    /\ lineOptions = ui.nopts
    /\ fontSettingsPerLine = ui.fsl
    /\ current_restoring = FALSE
    /\ undoCounter = 0
    /\ undoDisabled = TRUE
    /\ console = <<>>
    /\ last = [op |-> "init", threw |-> FALSE]
    /\ calls = 0
    /\ NoAssets
    /\ LabelIs(gen_label(LabelLoaded, ui, FALSE, TRUE, FALSE))
    /\ PollingLoaded

Init ==
    /\ \E synced \in BOOLEAN : Started(preview(Lines(FormDefault(synced), 0, Arr(<<>>))))
    /\ call = NoCall

\* the user replaces the label text by t: an input event on #label_text
InputEvent(t, fail) ==
    Becomes("save", RunMicrotasks(OnChange(
                        [World EXCEPT !.ui.form["label_text"] = Str(t)], fail)))

\* the user clicks the undo button
UndoClick(fail) == Becomes("undo", RunMicrotasks(undoSettings(World, fail)))

\* the response to a template request arrives
RepoLoadResponse(data, fail) ==
    Becomes("repoLoad", RunMicrotasks(repoLoad(World, data, fail)))

\* localStorage accepts every write
Next ==
    \/ \E t \in Texts : InputEvent(t, "none")
    \/ UndoClick("none")
    \/ \E data \in Templates : RepoLoadResponse(data, "none")

Spec == Init /\ [][Next]_vars

\* localStorage may refuse a write (QuotaExceededError): either write of a
\* save, the first write of an undo, the write of a template load
NextQuota ==
    \/ \E t \in Texts, fail \in {"none", "first", "second"} : InputEvent(t, fail)
    \/ \E fail \in {"none", "first"} : UndoClick(fail)
    \/ \E data \in Templates, fail \in {"none", "first"} : RepoLoadResponse(data, fail)

SpecQuota == Init /\ [][NextQuota]_vars

(***************************************************************************)
(* generateHash evaluated on its own, one turn of its loop at a time       *)
(***************************************************************************)
\* the longest string that is hashed
MaxUnits == 3

\* the code units the strings are made of: two letters, the highest unit
\* of one byte and the highest unit of all
HashUnits == {97, 98, 255, 65535}

\* the strings of at most n units
StringsTo(n) == UNION {[1..k -> HashUnits] : k \in 0..n}

\* nothing happens on the page while a utility function is evaluated
PageIdle == Started(preview(Lines(FormDefault(FALSE), 0, Arr(<<>>))))

\* generateHash(string) has been entered: hash = FNV_OFFSET_BASIS, i = 0
HashInit ==
    /\ PageIdle
    /\ \E string \in StringsTo(MaxUnits) :
           call = [fn |-> "generateHash", string |-> string, i |-> 0,
                   hash |-> FNV_OFFSET_BASIS, result |-> ""]

\* one turn of the loop
HashLoop ==
    /\ call.i < Len(call.string)
    /\ call' = [call EXCEPT !.i = @ + 1,
                            !.hash = HashStep(@, call.string[call.i + 1])]
    /\ UNCHANGED <<page, label, polling>>

\* return hash.toString(36)
HashReturn ==
    /\ call.i = Len(call.string)
    /\ call.result = ""
    /\ call' = [call EXCEPT !.result = ToString36(call.hash)]
    /\ UNCHANGED <<page, label, polling>>

HashNext == HashLoop \/ HashReturn

SpecHash == HashInit /\ [][HashNext]_vars

(***************************************************************************)
(* The diff utilities evaluated on their own                               *)
(***************************************************************************)
\* the number of keys a flat mapping is drawn from
MaxKeys == 3

FlatKeys == {"k" \o ToString(i) : i \in 1..MaxKeys}

\* the leaves: a string and a number
FlatValues == {Str(S("x")), Num(1)}

\* the object with the keys of the set ks, k1 first, holding f[k]
FlatOf(ks, f) ==
    SelectSeq([i \in 1..MaxKeys |-> <<"k" \o ToString(i), f["k" \o ToString(i)]>>],
              LAMBDA p : p[1] \in ks)

\* the flat mappings over FlatKeys
FlatMappings ==
    UNION {{FlatOf(ks, f) : f \in [FlatKeys -> FlatValues]} : ks \in SUBSET FlatKeys}

\* the label texts of the snapshots that are compared: one line, two
\* lines, and the texts [] and {}
DiffTexts == {S("a"), <<C("a"), C("\n"), C("b")>>, <<JArr(<<>>)>>, <<JObj(<<>>)>>}

\* the snapshot a save assembles on a fresh page with the given label text
SnapshotWith(t, synced) ==
    SnapshotOf(preview(Lines([FormDefault(synced) EXCEPT !["label_text"] = Str(t)],
                             0, Arr(<<>>))))

Snapshots == {SnapshotWith(t, synced) : t \in DiffTexts, synced \in BOOLEAN}

\* diffFlatten(before, after) or compareObjects(before, after) is entered;
\* compareObjects also with no snapshot before, as on the first save
DiffInit ==
    /\ PageIdle
    /\ \/ \E before \in FlatMappings, after \in FlatMappings :
              call = [fn |-> "diffFlatten", before |-> before, after |-> after,
                      done |-> FALSE, result |-> Undefined]
       \/ \E before \in Snapshots \cup {Undefined}, after \in Snapshots :
              call = [fn |-> "compareObjects", before |-> before, after |-> after,
                      done |-> FALSE, result |-> Undefined]

\* diffFlatten returns [added, changed, removed]
DiffFlattenReturn ==
    /\ call.fn = "diffFlatten"
    /\ ~call.done
    /\ call' = [call EXCEPT !.done = TRUE,
                            !.result = diffFlatten(call.before, call.after)]
    /\ UNCHANGED <<page, label, polling>>

\* compareObjects returns { added, changed, removed }
CompareObjectsReturn ==
    /\ call.fn = "compareObjects"
    /\ ~call.done
    /\ call' = [call EXCEPT !.done = TRUE,
                            !.result = compareObjects(call.before, call.after)]
    /\ UNCHANGED <<page, label, polling>>

DiffNext == DiffFlattenReturn \/ CompareObjectsReturn

SpecDiff == DiffInit /\ [][DiffNext]_vars

(***************************************************************************)
(* Editing the label: text, style, sync and print type                     *)
(***************************************************************************)
\* the number of history entries up to which the label is edited
MaxEdits == 3

\* the label texts entered: one, two and three lines
FontTexts == Texts \cup {<<C("a"), C("\n"), C("b"), C("\n"), C("c")>>}

\* the font sizes entered
FontSizes == {S("70"), S("50")}

\* the form after the user has checked the radio with the given id: the
\* other radios of its group are unchecked
CheckRadio(f, id) ==
    [x \in InputIds |->
        IF x = id THEN Bool(TRUE)
        ELSE IF Element(x).type = "radio" /\ Element(x).name = Element(id).name
        THEN Bool(FALSE)
        ELSE f[x]]

\* a change or input event on a form element other than #lineSelect, the
\* form being f once the user has acted
FormEvent(f) ==
    /\ Len(ReadHistory(localStorage)[2]) < MaxEdits
    /\ Becomes("save", RunMicrotasks(OnChange([World EXCEPT !.ui.form = f], "none")))

TextInput(t) == FormEvent([form EXCEPT !["label_text"] = Str(t)])

SizeInput(size) == FormEvent([form EXCEPT !["font_size"] = Str(size)])

SyncToggle ==
    FormEvent([form EXCEPT !["sync_font_settings"] = Bool(~Truthy(@))])

PrintTypeChange(id) == FormEvent(CheckRadio(form, id))

FontNext ==
    \/ \E t \in FontTexts : TextInput(t)
    \/ \E size \in FontSizes : SizeInput(size)
    \/ SyncToggle
    \/ \E id \in {"print_type_text", "print_type_shipping"} : PrintTypeChange(id)

SpecFont == Init /\ [][FontNext]_vars

(***************************************************************************)
(* Styling the lines of a text label one by one: a line is selected, its   *)
(* style and the text are edited                                           *)
(***************************************************************************)
\* the number of history entries up to which the lines are edited
MaxLineEdits == 4

\* the label texts entered: one, two and three lines
LineTexts ==
    {S("a"), <<C("a"), C("\n"), C("b")>>, <<C("a"), C("\n"), C("b"), C("\n"), C("c")>>}

\* the history is short enough to go on editing
LinesRoom == LengthOf(ReadHistory(localStorage)) < MaxLineEdits

\* a change or input event on a form element other than #lineSelect, the
\* form being f once the user has acted
LineEdit(f) ==
    /\ LinesRoom
    /\ Becomes("save", RunMicrotasks(OnChange([World EXCEPT !.ui.form = f], "none")))

\* the user picks option k of #lineSelect, or clicks or types in line k of
\* the text, which sets the value and triggers the change event
PickLine(k) ==
    /\ k < lineOptions
    /\ Becomes("select",
               RunMicrotasks(lineSelectChange(
                   [World EXCEPT !.ui.form["lineSelect"] = Str(S(ToString(k)))])))

SelectLineEvent(k) == LinesRoom /\ PickLine(k)

LinesNext ==
    \/ \E t \in LineTexts : LineEdit([form EXCEPT !["label_text"] = Str(t)])
    \/ LineEdit([form EXCEPT !["font_checkbox"] = Bool(~Truthy(@))])
    \/ \E k \in 0..2 : SelectLineEvent(k)

\* a fresh profile whose #sync_font_settings starts unchecked
LinesInit ==
    /\ Started(preview(Lines(FormDefault(FALSE), 0, Arr(<<>>))))
    /\ call = NoCall

SpecLines == LinesInit /\ [][LinesNext]_vars

(***************************************************************************)
(* Going back: the lines are styled one by one, edits are undone and a     *)
(* template is loaded                                                      *)
(***************************************************************************)
\* a template the repository serves without the key text
BareTemplates ==
    {Obj(<< <<"name", Str(S("t3"))>>,
            <<"label_text", Str(<<C("a"), C("\n"), C("b")>>)>> >>)}

\* the history is short enough to go on
RevertRoom == LengthOf(ReadHistory(localStorage)) < MaxEdits

RevertNext ==
    \/ \E t \in Texts : FormEvent([form EXCEPT !["label_text"] = Str(t)])
    \/ FormEvent([form EXCEPT !["font_checkbox"] = Bool(~Truthy(@))])
    \/ RevertRoom /\ \E k \in 0..1 : PickLine(k)
    \/ UndoClick("none")
    \/ RevertRoom /\ \E data \in BareTemplates : RepoLoadResponse(data, "none")

SpecRevert == LinesInit /\ [][RevertNext]_vars

(***************************************************************************)
(* Loading the page over records that an earlier session, another version  *)
(* or another script left in localStorage                                  *)
(***************************************************************************)
\* a text that JSON.parse rejects
Undecodable == <<C("{"), C("oops")>>

\* a snapshot with some of the fields
PartialSnapshot ==
    Obj(<< <<"label_text", Str(<<C("a"), C("\n"), C("b")>>)>>,
           <<"font_inverted", Bool(TRUE)>>,
           <<"font_align", Str(S("left"))>> >>)

\* a snapshot with fields whose values their elements do not take
InvalidSnapshot ==
    Obj(<< <<"label_text", Str(S("a"))>>,
           <<"font", Str(S("Comic Sans,Bold"))>>,
           <<"font_size", Str(S("abc"))>>,
           <<"line_spacing", Str(S("175"))>>,
           <<"print_color", Str(S("red"))>>,
           <<"fontSettingsPerLine", Str(Undecodable)>> >>)

\* what may be stored under LS_KEY: undecodable text, JSON that is no
\* object, and snapshots
StoredSnapshots ==
    {Undecodable, <<C("null")>>, <<C("5")>>,
     Stringify(PartialSnapshot), Stringify(InvalidSnapshot)}

\* what may be stored under LS_HISTORY_KEY: undecodable text, JSON that is
\* no array, and a history of one snapshot
StoredHistories ==
    {Undecodable, <<C("null")>>, <<C("5")>>,
     Stringify(Obj(<< <<"a", Num(1)>> >>)),
     Stringify(Arr(<<PartialSnapshot>>))}

\* no record, or one of the given texts
Maybe(texts) == {<<>>} \cup {<<t>> : t \in texts}

\* localStorage with the given records
Stored(snapshot, history) ==
    LET ls1 == IF snapshot = <<>> THEN <<>> ELSE setItem(<<>>, LS_KEY, snapshot[1])
    IN  IF history = <<>> THEN ls1 ELSE setItem(ls1, LS_HISTORY_KEY, history[1])

\* the page as the scripts leave it before init2 runs
StoredInit ==
    /\ \E snapshot \in Maybe(StoredSnapshots), history \in Maybe(StoredHistories) :
           localStorage = Stored(snapshot, history)
    /\ form = FormDefault(FALSE)
    /\ lineOptions = 0
    /\ fontSettingsPerLine = Arr(<<>>)
    /\ current_restoring = FALSE
    /\ undoCounter = 0
    /\ undoDisabled = TRUE
    /\ console = <<>>
    /\ last = [op |-> "stored", threw |-> FALSE]
    /\ calls = -1
    /\ NoAssets
    /\ LabelIs(LabelLoaded)
    /\ PollingLoaded
    /\ call = NoCall

\* preview() called where nothing catches what it throws, as at the end of
\* init2; after is what setFontSettingsPerLine leaves
PreviewCalled(w, after) ==
    IF FontSettingsThrows(w.ui, after.fsl) THEN Throw([w EXCEPT !.ui = after])
    ELSE [w EXCEPT !.ui = after]

\* preview() called on the page w
Previewed(w) == CHOOSE end \in {PreviewCalled(w, after) : after \in {preview(w.ui)}} : TRUE

\* init2 after the restore: the handlers are bound, then updateUndoButton
\* and preview
Init2Bound(w) == CHOOSE end \in {Previewed(shown) : shown \in {updateUndoButton(w)}} : TRUE

\* init2 up to the end of the restore
Init2Restore(w, synced) ==
    restoreAllSettingsFromLocalStorage(
        [w EXCEPT !.ui = Lines(FormDefault(synced), w.ui.nopts, w.ui.fsl)])

\* init2 when its restore has left r: what the restore throws ends init2
\* before any handler is bound
Init2Ends(r) ==
    IF r.threw THEN Becomes("stopped", RunMicrotasks(r))
    ELSE \E bound \in {Init2Bound(r)} : Becomes("init2", RunMicrotasks(bound))

\* init2 runs once the barcode types are loaded
Init2 ==
    /\ last.op = "stored"
    /\ \E synced \in BOOLEAN : \E r \in {Init2Restore(World, synced)} : Init2Ends(r)

\* the handlers are bound, and the history is short enough to go on
Bound ==
    /\ last.op \notin {"stored", "stopped"}
    /\ LengthOf(ReadHistory(localStorage)) < MaxEdits

StoredNext ==
    \/ Init2
    \/ Bound /\ \E t \in Texts : InputEvent(t, "none")
    \/ Bound /\ UndoClick("none")
    \/ Bound /\ \E data \in Templates : RepoLoadResponse(data, "none")

SpecStored == StoredInit /\ [][StoredNext]_vars

\* the barcode types arrive and init2 runs: the page does load
SpecStoredFair == SpecStored /\ WF_vars(Init2)

(***************************************************************************)
(* Images: the user attaches files, the saves write them to the image      *)
(* store and the restores read them back                                   *)
(***************************************************************************)
\* the most operations on the image store in flight
MaxTasks == 2

\* the longest history with images
MaxSaves == 2

\* the image files of the user: the same bytes under two types
UserFiles ==
    {File(Str(S("a.png")), Str(S("image/png")), Str(S("QQ==")), Undefined),
     File(Str(S("a.jpg")), Str(S("image/jpeg")), Str(S("QQ==")), Undefined)}

\* how a request on the image store, or a fetch, ends
Outcomes == {"done", "open", "request"}

\* the user drops file f on the drop zone: addFile, the addedfile handler
\* removes the file attached before, and removedfile and accept call
\* preview()
DropFile(f) ==
    Becomes("drop", PreviewCalled([World EXCEPT !.files = <<f>>], preview(World.ui)))

\* Dropzone has made the thumbnail of the attached file and sets its dataURL
ThumbnailReady ==
    /\ Len(files) > 0
    /\ files[1].dataURL = Undefined
    /\ Becomes("thumbnail",
               [World EXCEPT !.files[1].dataURL = DataUrlOf(files[1].type, files[1].b64)])

\* the tasks but the one at position i
Without(ts, i) == SubSeq(ts, 1, i - 1) \o SubSeq(ts, i + 1, Len(ts))

\* the promise that operation t has settled when it ended as outcome says
Settled(t, outcome, promise) ==
    [task |-> t, outcome |-> outcome, how |-> promise.how, value |-> promise.value]

\* the write t of a save settles, r being what _saveImageToDB makes of it
SaveSettles(i, t, outcome, r) ==
    /\ settled' = Settled(t, outcome, r.promise)
    /\ tasks' = Without(tasks, i)
    /\ images' = r.images
    /\ PageBecomes("settle", ImageSaved(World, r.promise))

\* the read t of a restore settles with promise p
ReadSettles(i, t, outcome, p) ==
    /\ settled' = Settled(t, outcome, p)
    /\ tasks' = IF p.how = "resolve" /\ HasBytes(p.value)
                THEN [tasks EXCEPT ![i] = Fetching(t, p.value)]
                ELSE Without(tasks, i)
    /\ images' = images
    /\ PageBecomes("settle", ImageRead(World, p))

\* the fetch of the record that read t found settles: fetch resolves with
\* the response or rejects
FetchSettles(i, t, outcome) ==
    /\ outcome # "open"
    /\ settled' = Settled(t, outcome, IF outcome = "done" THEN Resolved(Undefined)
                                      ELSE Rejected)
    /\ tasks' = Without(tasks, i)
    /\ images' = images
    /\ PageBecomes("settle", ImageFetched(World, t, outcome))

\* the operation at position i goes on, ending as outcome says
TaskSettles(i, outcome) ==
    IF tasks[i].kind = "save"
    THEN SaveSettles(i, tasks[i], outcome,
                     SaveImageToDB(images, tasks[i].id, tasks[i].mime, tasks[i].b64,
                                   outcome))
    ELSE IF tasks[i].stage = "db"
    THEN ReadSettles(i, tasks[i], outcome,
                     GetImageFromDB(images, tasks[i].id, outcome))
    ELSE FetchSettles(i, tasks[i], outcome)

\* a handler may start an operation, and the history may grow
Room == Len(tasks) < MaxTasks

AssetsNext ==
    \/ \E f \in UserFiles : DropFile(f)
    \/ ThumbnailReady
    \/ /\ Room
       /\ LengthOf(ReadHistory(localStorage)) < MaxSaves
       /\ InputEvent(S("a"), "none")
    \/ Room /\ UndoClick("none")
    \/ \E i \in 1..Len(tasks), outcome \in Outcomes : TaskSettles(i, outcome)

\* the page starts with the line settings in sync
AssetsInit ==
    /\ Started(preview(Lines(FormDefault(TRUE), 0, Arr(<<>>))))
    /\ call = NoCall

SpecAssets == AssetsInit /\ [][AssetsNext]_vars

\* a read of a restore, or the fetch that follows it, settles
GetSettles ==
    \E i \in 1..Len(tasks), outcome \in Outcomes :
        tasks[i].kind = "get" /\ TaskSettles(i, outcome)

\* a write of a save settles
PutSettles ==
    \E i \in 1..Len(tasks), outcome \in Outcomes :
        tasks[i].kind = "save" /\ TaskSettles(i, outcome)

\* the requests on the image store and the fetches are events of the
\* browser's event loop: one that is in flight is not put off for ever
SpecAssetsFair == SpecAssets /\ WF_vars(GetSettles) /\ WF_vars(PutSettles)

(***************************************************************************)
(* Restores one after the other: the user goes back twice while the reads  *)
(* of the first restore are in flight                                      *)
(***************************************************************************)
\* the longest history of snapshots with an image
MaxRestoreSaves == 3

\* two image files of the user with different bytes
TwoFiles ==
    {File(Str(S("a.png")), Str(S("image/png")), Str(S("QQ==")), Undefined),
     File(Str(S("b.png")), Str(S("image/png")), Str(S("Qg==")), Undefined)}

\* a read of a restore, or the fetch that follows it, is in flight
Reading == \E i \in 1..Len(tasks) : tasks[i].kind = "get"

\* a write of a save is in flight
Writing == \E i \in 1..Len(tasks) : tasks[i].kind = "save"

\* the user attaches files and saves, one write at a time, goes back once the
\* writes have settled and leaves the page alone while a restore reads; the
\* image store and the fetches work
RestoresNext ==
    \/ ~Reading /\ \E f \in TwoFiles : DropFile(f)
    \/ ~Reading /\ ThumbnailReady
    \/ /\ tasks = <<>>
       /\ LengthOf(ReadHistory(localStorage)) < MaxRestoreSaves
       /\ InputEvent(S("a"), "none")
    \/ Room /\ ~Writing /\ UndoClick("none")
    \/ \E i \in 1..Len(tasks) : TaskSettles(i, "done")

SpecRestores == AssetsInit /\ [][RestoresNext]_vars

(***************************************************************************)
(* The status panel: previews and prints are requested and answered        *)
(***************************************************************************)
\* the most requests of gen_label in flight
MaxRequests == 2

\* what label.js keeps
Label ==
    [panel |-> statusPanel, last |-> lastPreviewData, mode |-> dropZoneMode,
     requests |-> requests]

\* what label.js keeps becomes s
LabelBecomes(s) ==
    /\ statusPanel' = s.panel
    /\ lastPreviewData' = s.last
    /\ dropZoneMode' = s.mode
    /\ requests' = s.requests

\* handler op has ended in w and has left s in label.js
StatusBecomes(op, w, s) ==
    /\ PageSet(op, w)
    /\ images' = images
    /\ tasks' = tasks \o w.started
    /\ settled' = NoPromise
    /\ LabelBecomes(s)

\* gen_label called on the page w, where setFontSettingsPerLine left w.ui:
\* when that threw, gen_label has ended before the status is set; times is
\* how often the call is made
Labelled(s, w, times, isPreview, cut_once) ==
    IF w.threw THEN s
    ELSE IF times = 2
    THEN gen_label(gen_label(s, w.ui, Len(w.files) > 0, isPreview, cut_once),
                   w.ui, Len(w.files) > 0, isPreview, cut_once)
    ELSE gen_label(s, w.ui, Len(w.files) > 0, isPreview, cut_once)

\* file f is added to the drop zone: DropFile with the status panel
\* followed; the removedfile handler of a file attached before calls
\* preview(), and so does accept
StatusDrop(f) ==
    \E end \in {PreviewCalled([World EXCEPT !.files = <<f>>], preview(World.ui))} :
        StatusBecomes("drop", end, Labelled(Label, end, IF files = <<>> THEN 1 ELSE 2,
                                            TRUE, FALSE))

\* print(cut_once)
PrintCall(cut_once) ==
    \E end \in {Previewed(World)} :
        StatusBecomes("print", end, Labelled(Label, end, 1, FALSE, cut_once))

\* what the callbacks of request r leave of s when the server answers with
\* a label or with success false, or when the request fails; the drop zone
\* has no handler for an upload that fails
Answered(s, r, answer) ==
    IF answer = "failed"
    THEN IF r.via = "ajax" THEN Errored(s, r.type) ELSE s
    ELSE Succeeded(s, IF r.via = "ajax" THEN r.type ELSE s.mode, answer = "refused")

\* request i is answered
Response(i, answer) ==
    /\ LabelBecomes([Answered(Label, requests[i], answer)
                        EXCEPT !.requests = Without(requests, i)])
    /\ UNCHANGED <<page, call, polling>>

\* a request is answered
Responds ==
    \E i \in 1..Len(requests), answer \in {"label", "refused", "failed"} :
        Response(i, answer)

StatusRoom == Len(requests) < MaxRequests

StatusNext ==
    \/ StatusRoom /\ \E f \in UserFiles : StatusDrop(f)
    \/ StatusRoom /\ \E cut_once \in BOOLEAN : PrintCall(cut_once)
    \/ RevertRoom /\ \E t \in Texts : InputEvent(t, "none")
    \/ Responds

SpecStatus == Init /\ [][StatusNext]_vars

\* the request sent first is answered
OldestResponds ==
    /\ Len(requests) > 0
    /\ \E answer \in {"label", "refused", "failed"} : Response(1, answer)

\* the server answers, or the request fails: no request stays in flight for
\* ever, as the one sent first does not
SpecStatusFair == SpecStatus /\ WF_vars(OldestResponds)

(***************************************************************************)
(* The polling of the printer: the user toggles the power of the printer   *)
(***************************************************************************)
\* the power button is clicked while the timer ids stay below this
MaxTimers == 16

\* the timers of printer.js
TimersNow == Timers(printerScanTimer, timeouts, timerIds)

\* the timers become t, n toggle requests being in flight
PollingBecomes(t, n) ==
    /\ printerScanTimer' = t.scan
    /\ timeouts' = t.pending
    /\ timerIds' = t.ids
    /\ toggles' = n
    /\ UNCHANGED <<page, call, label>>

\* togglePrinterPower(): the request is sent
TogglePower ==
    /\ timerIds + 3 * (toggles + 1) <= MaxTimers
    /\ PollingBecomes(TimersNow, toggles + 1)

\* the response of a toggle has arrived and parses
ToggleResponse ==
    /\ toggles > 0
    /\ PollingBecomes(Toggled(TimersNow), toggles - 1)

\* the request of a toggle fails, or its response does not parse: nothing
\* handles the rejection
ToggleFails ==
    /\ toggles > 0
    /\ PollingBecomes(TimersNow, toggles - 1)

\* the browser runs a timeout
TimeoutFires(x) ==
    /\ MayRun(timeouts, x)
    /\ PollingBecomes(TimedOut(TimersNow, x), toggles)

PollingNext ==
    \/ TogglePower
    \/ ToggleResponse
    \/ ToggleFails
    \/ \E x \in timeouts : TimeoutFires(x)

SpecPolling == Init /\ [][PollingNext]_vars

(***************************************************************************)
(* Properties                                                              *)
(***************************************************************************)
\* the entries of the history persisted in ls
HistoryIn(ls) == ReadHistory(ls)[2]

\* the snapshot persisted in ls, as stored and as a value
CurrentIn(ls) == getItem(ls, LS_KEY)
SnapshotIn(ls) == JSONParse(getItem(ls, LS_KEY)).v

\* JSON.stringify(e) as localStorage would hold it
TextOf(e) == Str(Stringify(e))

\* whether the snapshot persisted in ls differs from the last entry of h
DiffersFromLast(h, ls) == Len(h) = 0 \/ TextOf(h[Len(h)]) # CurrentIn(ls)

Min(a, b) == IF a <= b THEN a ELSE b

\* C1: after any sequence of saves, undos and template loads the persisted
\* history holds at most MAX_HISTORY entries
C1_HistoryBounded == Len(HistoryIn(localStorage)) <= MAX_HISTORY

\* one save more than the history can hold has run, and the history is full
C1_Witness ==
    /\ calls = MAX_HISTORY + 1
    /\ Len(HistoryIn(localStorage)) = MAX_HISTORY

\* no two adjacent entries of h are equal
NoAdjacentEqual(h) == \A i \in 1..(Len(h) - 1) : h[i] # h[i + 1]

\* a save that took the history from h to h2 and left ls2 grew nothing
\* when the snapshot it left equals the last entry of h
SaveKeepsDistinct(h, h2, ls2) == ~DiffersFromLast(h, ls2) => h2 = h

\* C2: no two adjacent entries of the history are equal, and a save whose
\* serialized snapshot equals the last entry leaves the history as it is
C2_NoAdjacentDuplicates ==
    [][\A after \in {HistoryIn(localStorage')} :
           /\ NoAdjacentEqual(after)
           /\ (last'.op = "save" /\ ~last'.threw)
                  => SaveKeepsDistinct(HistoryIn(localStorage), after, localStorage')]_vars

\* a save of the snapshot that is the only entry has run
C2_Witness ==
    /\ last.op = "save"
    /\ ~last.threw
    /\ calls = -1
    /\ Len(HistoryIn(localStorage)) = 1
    /\ ~DiffersFromLast(HistoryIn(localStorage), localStorage)

\* C3: whenever the history is not empty, its last entry equals the
\* persisted current snapshot (after save, undo and repoLoad)
C3_LastIsCurrent ==
    Len(HistoryIn(localStorage)) > 0
        => ~DiffersFromLast(HistoryIn(localStorage), localStorage)

\* an undo that took the history from h to h2 and left ls2 and the count
UndoPopped(h, h2, ls2, count) ==
    Len(h) >= 2 => /\ h2 = SubSeq(h, 1, Len(h) - 1)
                   /\ ~DiffersFromLast(h2, ls2)
                   /\ count = Len(h) - 2

\* C4: an undo on a history of two or more entries removes exactly the last
\* entry, makes the new last entry the persisted current snapshot and
\* lowers the undo count shown by one
C4_UndoPops ==
    [][(last'.op = "undo" /\ ~last'.threw)
       => \A after \in {HistoryIn(localStorage')} :
              UndoPopped(HistoryIn(localStorage), after, localStorage', undoCounter')]_vars

\* three entries were saved and one undone: two are left, one undo remains
C4_Witness ==
    /\ last.op = "undo"
    /\ Len(console) > 0
    /\ Len(HistoryIn(localStorage)) = 2
    /\ undoCounter = 1

\* C5: an undo on a history of fewer than two entries changes nothing: not
\* the history, the current snapshot, the form, the line styles, and no
\* restore is started
C5_ShortUndoNoOp ==
    [][(last'.op = "undo" /\ Len(HistoryIn(localStorage)) < 2)
       => /\ UNCHANGED <<localStorage, form, lineOptions, fontSettingsPerLine,
                         current_restoring, undoCounter, undoDisabled>>
          /\ console' = <<>>]_vars

\* an undo has run on a history of one entry
C5_Witness ==
    /\ last.op = "undo"
    /\ console = <<>>
    /\ Len(HistoryIn(localStorage)) = 1

\* C6 as stated: after k consecutive saves from the empty history, each
\* differing from the one before, the undo count shown is min(k, 39)
C6_DepthMinCalls ==
    calls >= 0 => undoCounter = Min(calls, MAX_HISTORY - 1)

\* C6: after k >= 1 consecutive saves from the empty history, each
\* differing from the one before, the undo count shown is min(k, 40) - 1
C6_DepthOneLess ==
    calls >= 1 => undoCounter = Min(calls, MAX_HISTORY) - 1

\* more differing saves than the history holds have run
C6_Witness == calls = MaxCalls /\ undoCounter = MAX_HISTORY - 1

\* a save that took a full history h to h2 and left ls2
SaveEvicted(h, h2, ls2) ==
    (Len(h) = MAX_HISTORY /\ DiffersFromLast(h, ls2))
        => h2 = Append(Tail(h), SnapshotIn(ls2))

\* C7: a save that appends to a history of MAX_HISTORY entries drops exactly
\* the oldest entry: the other entries keep their order and the new
\* snapshot follows them
C7_EvictsOldest ==
    [][(last'.op = "save" /\ ~last'.threw)
       => \A after \in {HistoryIn(localStorage')} :
              SaveEvicted(HistoryIn(localStorage), after, localStorage')]_vars

\* a differing save has run on a full history
C7_Witness ==
    /\ last.op = "save"
    /\ Len(console) = 1
    /\ calls = MaxCalls
    /\ Len(HistoryIn(localStorage)) = MAX_HISTORY

\* what a save makes of history h when it leaves ls2
AsSaved(h, ls2) ==
    IF DiffersFromLast(h, ls2) THEN Evict(Append(h, SnapshotIn(ls2))) ELSE h

\* C8 as stated: repoLoad follows the rules of save: its snapshot becomes
\* the current snapshot and is appended to the history when it differs from
\* the last entry
C8_LoadAppends ==
    [][(last'.op = "repoLoad" /\ ~last'.threw)
       => HistoryIn(localStorage') = AsSaved(HistoryIn(localStorage), localStorage')]_vars

\* C9 as stated: a save persists the current snapshot and the history
\* together, also when localStorage refuses a write part-way: either both
\* are as before or the last entry is the current snapshot
C9_SaveAtomic ==
    [][last'.op = "save"
       => \/ localStorage' = localStorage
          \/ \A after \in {HistoryIn(localStorage')} :
                 ~DiffersFromLast(after, localStorage')]_vars

\* the console after a save that logs the diff from the last entry of h to
\* the snapshot left in ls2
DiffLogged(h, ls2) ==
    << <<"debug", compareObjects(LastOf(Arr(h)), SnapshotIn(ls2))>> >>

\* C10 as stated: every save writes to the console the diff between the
\* previous last entry and the new snapshot, also when it appends nothing
C10_EverySaveLogs ==
    [][(last'.op = "save" /\ ~last'.threw)
       => console' = DiffLogged(HistoryIn(localStorage), localStorage')]_vars

\* the console after a save that logs the diff only when it appends
DiffLoggedIfNew(h, ls2) == IF DiffersFromLast(h, ls2) THEN DiffLogged(h, ls2) ELSE <<>>

\* C10: a save writes to the console the diff between the previous last
\* entry and the new snapshot exactly when it appends the snapshot; a save
\* that appends nothing writes nothing
C10_AppendingSaveLogs ==
    [][(last'.op = "save" /\ ~last'.threw)
       => console' = DiffLoggedIfNew(HistoryIn(localStorage), localStorage')]_vars

\* a save that appended nothing has run on a history of several entries
C10_Witness ==
    /\ last.op = "save"
    /\ ~last.threw
    /\ console = <<>>
    /\ Len(HistoryIn(localStorage)) >= 2


\* the bits set in a number below 2^16
BitsOf(a) == {k \in 0..15 : (a \div (2 ^ k)) % 2 = 1}

RECURSIVE SumOfPowers(_)
SumOfPowers(ks) ==
    IF ks = {} THEN 0
    ELSE LET k == CHOOSE x \in ks : TRUE IN (2 ^ k) + SumOfPowers(ks \ {k})

\* the number with the bits that exactly one of a and b has
XorOf(a, b) == SumOfPowers((BitsOf(a) \ BitsOf(b)) \cup (BitsOf(b) \ BitsOf(a)))

\* the 64-bit number x with unit u combined into its low 16 bits by xor
Combined(x, u) ==
    LET low == XorOf(Digit(x, 1) + 256 * Digit(x, 2), u)
    IN  [i \in 1..8 |-> IF i = 1 THEN low % 256
                        ELSE IF i = 2 THEN low \div 256
                        ELSE Digit(x, i)]

\* x * 1099511628211 modulo 2^64, the prime being 2^40 + 2^8 + 179: the
\* low eight digits of x * 179 + x * 256 + x * 256^5
TimesPrime(x) ==
    LET sum == Carried([k \in 1..8 |->
                           179 * Digit(x, k)
                           + (IF k > 1 THEN Digit(x, k - 1) ELSE 0)
                           + (IF k > 5 THEN Digit(x, k - 5) ELSE 0)], 1, 0)
    IN  Norm(SubSeq(sum, 1, 8))

\* x lies in [0, 2^64)
Below64(x) == Len(x) <= 8 /\ \A i \in 1..Len(x) : x[i] \in 0..255

\* the value of the base-36 digit c
ValueOf36(c) == (CHOOSE i \in 1..36 : SubSeq(Digits36, i, i) = c) - 1

RECURSIVE FromString36(_, _)
\* the number the base-36 digits of str stand for, acc being the number
\* read so far
FromString36(str, acc) ==
    IF str = "" THEN acc
    ELSE FromString36(SubSeq(str, 2, Len(str)),
                      Norm(Carried([k \in 1..(Len(acc) + 1) |->
                                       36 * Digit(acc, k)
                                       + (IF k = 1 THEN ValueOf36(SubSeq(str, 1, 1))
                                          ELSE 0)], 1, 0)))

\* what a step of the evaluation of generateHash leaves, given what it found
HashFolds(before, after) ==
    /\ Below64(after.hash)
    /\ after.i = before.i + 1
          => after.hash = TimesPrime(Combined(before.hash, after.string[after.i]))
    /\ after.result # ""
          => /\ after.i = Len(after.string)
             /\ FromString36(after.result, <<>>) = after.hash
             /\ after.result = generateHash(after.string)
    /\ after.string = before.string

\* C14: generateHash(s) is the 64-bit fold that starts at the basis
\* 14695981039346656037 and, for each unit in order, takes the xor with the
\* unit and the product with 1099511628211 modulo 2^64; every intermediate
\* value lies in [0, 2^64) and the result is that number in base 36
C14_HashIsFold == [][HashFolds(call, call')]_vars

\* the hash of the string "a", 0xaf63dc4c8601ec8c, has been returned
C14_Witness ==
    /\ call.fn = "generateHash"
    /\ call.string = <<97>>
    /\ call.hash = <<140, 236, 1, 134, 76, 220, 99, 175>>
    /\ call.result = "2o0ongoiv4rrg"


\* the keys of an object given by its properties
KeysOf(ps) == {ps[i][1] : i \in 1..Len(ps)}

\* the classification of key k that diff [added, changed, removed] of before
\* and after gives is the one required
Classified(k, before, after, d) ==
    LET inA == HasKey(d[1], k)
        inC == HasKey(d[2], k)
        inR == HasKey(d[3], k)
    IN  CASE ~HasKey(before, k) ->
                 inA /\ GetKey(d[1], k) = GetKey(after, k) /\ ~inC /\ ~inR
          [] ~HasKey(after, k) ->
                 inR /\ GetKey(d[3], k) = GetKey(before, k) /\ ~inA /\ ~inC
          [] GetKey(before, k) # GetKey(after, k) ->
                 /\ inC /\ ~inA /\ ~inR
                 /\ GetKey(d[2], k) = Obj(<< <<"from", GetKey(before, k)>>,
                                             <<"to", GetKey(after, k)>> >>)
          [] OTHER -> ~inA /\ ~inC /\ ~inR

\* diff d of before and after classifies every key, and holds no other key
ClassifiesAll(before, after, d) ==
    /\ \A k \in KeysOf(before) \cup KeysOf(after) : Classified(k, before, after, d)
    /\ KeysOf(d[1]) \cup KeysOf(d[2]) \cup KeysOf(d[3])
           \subseteq KeysOf(before) \cup KeysOf(after)

\* C15: diffFlatten puts every key in exactly the class it belongs to:
\* added for a key only in after, changed with {from, to} for a key in
\* both with different values, removed for a key only in before, none for
\* a key with the same value in both; the diff of nothing against a
\* snapshot has added = flatten(snapshot) and nothing changed or removed
C15_DiffClassifies ==
    /\ (call.fn = "diffFlatten" /\ call.done)
          => ClassifiesAll(call.before, call.after, call.result)
    /\ (call.fn = "compareObjects" /\ call.done /\ call.before = Undefined)
          => call.result = DiffObject(<<flattenObject(call.after), <<>>, <<>>>>)

\* a diff with a key added, a key changed and a key removed was returned
C15_Witness ==
    /\ call.fn = "diffFlatten"
    /\ call.done
    /\ call.result[1] # <<>>
    /\ call.result[2] # <<>>
    /\ call.result[3] # <<>>

\* compareObjects reported nothing added, changed or removed
NothingReported(d) == d = DiffObject(<< <<>>, <<>>, <<>> >>)

\* C16 as stated: two snapshots have the same serialized form, which is the
\* equality save tests, exactly when they flatten to the same mapping, that
\* is when compareObjects reports nothing
C16_EqualIffFlatEqual ==
    (call.fn = "compareObjects" /\ call.done /\ call.before # Undefined)
        => /\ (Stringify(call.before) = Stringify(call.after))
                  <=> NothingReported(call.result)
           /\ NothingReported(call.result)
                  <=> (KeysOf(flattenObject(call.before)) = KeysOf(flattenObject(call.after))
                       /\ \A k \in KeysOf(flattenObject(call.before)) :
                              GetKey(flattenObject(call.before), k)
                                  = GetKey(flattenObject(call.after), k))


\* the settings fsl hold one slot per line of the label text of form f, each
\* the current style of f with the text of its line
SyncedResolved(f, fsl) ==
    LET lines == SplitLines(f["label_text"][2])
    IN  /\ IsArr(fsl)
        /\ Len(fsl[2]) = Len(lines)
        /\ \A j \in 1..Len(lines) :
               /\ IsObj(fsl[2][j])
               /\ DelKey(fsl[2][j][2], "text") = CurrentFont(f)[2]
               /\ GetKey(fsl[2][j][2], "text") = Str(lines[j])

\* C20: in synced mode with a text print type, setFontSettingsPerLine leaves
\* as many slots as the text has lines, each with the non-text fields of
\* the current style, whatever the sequence held before
C20_SyncedCopies ==
    [][(/\ last'.op = "save"
        /\ form'["sync_font_settings"] = Bool(TRUE)
        /\ CheckedVal(form', "print_type") # Str(S("shipping")))
       => SyncedResolved(form', fontSettingsPerLine')]_vars

\* the per-line settings stored in snapshot e
StoredLines(e) == JSONParse(GetKey(e[2], "fontSettingsPerLine")).v

\* sync was switched on over two independent lines of different sizes
C20_Witness ==
    /\ last.op = "save"
    /\ form["sync_font_settings"] = Bool(TRUE)
    /\ Len(ReadHistory(localStorage)[2]) = 3
    /\ \E prev \in {ReadHistory(localStorage)[2][2]} :
           /\ GetKey(prev[2], "sync_font_settings") = Bool(FALSE)
           /\ Len(StoredLines(prev)[2]) = 2
           /\ GetKey(StoredLines(prev)[2][1][2], "size")
                  # GetKey(StoredLines(prev)[2][2][2], "size")
    /\ Len(fontSettingsPerLine[2]) = 2


\* a record is malformed when it is present and cannot be decoded, or
\* decodes to something that is not of the expected shape
MalformedSnapshot(ls) ==
    /\ LS_KEY \in DOMAIN ls
    /\ ~(JSONParse(ls[LS_KEY]).ok /\ IsObj(JSONParse(ls[LS_KEY]).v))

MalformedHistory(ls) ==
    /\ LS_HISTORY_KEY \in DOMAIN ls
    /\ ~(JSONParse(ls[LS_HISTORY_KEY]).ok /\ IsArr(JSONParse(ls[LS_HISTORY_KEY]).v))

\* C17: with a malformed current-snapshot or history record in localStorage,
\* init2's restore and undo-count update, save and undo all complete
\* without raising
C17_MalformedNeverRaises ==
    [][MalformedSnapshot(localStorage) \/ MalformedHistory(localStorage)
           => ~last'.threw]_vars

\* the step runs restoreAllSettingsFromLocalStorage over a snapshot that
\* decodes to an object: init2, a template load, or an undo that goes back
RestoreRuns ==
    /\ \/ last'.op \in {"init2", "repoLoad"}
       \/ /\ last'.op = "undo"
          /\ IsArr(ReadHistory(localStorage))
          /\ LengthOf(ReadHistory(localStorage)) >= 2
    /\ LS_KEY \in DOMAIN localStorage'
    /\ IsObj(SnapshotIn(localStorage'))

\* the form the restore of the step starts from: init2 sets the defaults
\* first
RestoreStart ==
    IF last'.op = "init2" THEN {FormDefault(TRUE), FormDefault(FALSE)} ELSE {form}

\* v is a value that element e holds after a save
ValidFor(e, v) ==
    CASE e.type = "checkbox" -> v[1] = "bool"
      [] e.type = "radio" ->
            /\ IsStr(v)
            /\ \E i \in 1..Len(FormInputs) :
                   /\ FormInputs[i].type = "radio"
                   /\ FormInputs[i].name = e.name
                   /\ v[2] = S(FormInputs[i].val)
      [] e.type = "number" -> IsStr(v) /\ IsDigitString(AtomOf(v[2]))
      [] e.id = "font" -> IsStr(v) /\ AtomOf(v[2]) \in FontOptions
      [] OTHER -> IsStr(v)

\* what element e holds when it has taken v
Taken(e, v) == IF e.type = "radio" THEN Bool(v[2] = S(e.val)) ELSE v

\* element e after the restore of data: it has taken the value under its
\* key, or kept what it held when the key is not there
FieldRestored(prev, data, e, after) ==
    /\ ~HasKey(data, KeyOfInput(e)) => after[e.id] = prev[e.id]
    /\ (HasKey(data, KeyOfInput(e)) /\ ValidFor(e, GetKey(data, KeyOfInput(e))))
           => after[e.id] = Taken(e, GetKey(data, KeyOfInput(e)))

\* every element but the line selector, which setFontSettingsPerLine drives
FieldsRestored(prev, data, after) ==
    \A i \in 1..Len(FormInputs) :
        FormInputs[i].id # "lineSelect" => FieldRestored(prev, data, FormInputs[i], after)

KeysOfBytes(store, b64) == {k \in DOMAIN store : store[k].b64 = b64}

\* the writes in flight
Writes == {tasks[i] : i \in {j \in 1..Len(tasks) : tasks[j].kind = "save"}}

\* the reference of a snapshot, undefined when it has none
RefOf(snapshot) == IF IsObj(snapshot) THEN GetKey(snapshot[2], "image_ref") ELSE Undefined

\* C11: storing the same image bytes twice gives the same key both times
\* (two writes of the same bytes carry the same key, and it is the key of the
\* entry that holds the bytes) and the image store holds one entry for the
\* bytes: never more, and exactly one once a write of them was carried out
C11_SameKeyOneEntry ==
    /\ \A t \in Writes, u \in Writes : t.b64 = u.b64 => t.id = u.id
    /\ \A t \in Writes : KeysOfBytes(images, t.b64) \subseteq {KeyOfRef(t.id)}
    /\ \A k \in DOMAIN images : KeysOfBytes(images, images[k].b64) = {k}
    /\ (settled.task.kind = "save" /\ settled.outcome = "done")
           => KeysOfBytes(images, settled.task.b64) = {KeyOfRef(settled.task.id)}

\* the second write of the same bytes has been carried out: it found the key
\* of the first, and the image store holds the one entry
C11_Witness ==
    /\ settled.task.kind = "save"
    /\ settled.value = Bool(FALSE)
    /\ KeysOfBytes(images, settled.task.b64) = {KeyOfRef(settled.task.id)}
    /\ RefOf(SnapshotIn(localStorage)) = settled.task.id

\* the record that a get of the key resolves with
RecordOf(store, key) ==
    Obj(<< <<"mime", store[key].mime>>, <<"b64", store[key].b64>> >>)

\* C12: a write under a key that is present does not overwrite: every record
\* of the image store stays as it is, a write that is carried out under a
\* present key resolves with false, and a get that is carried out resolves
\* with the record that is there, which is the one written first
C12_NeverOverwrites ==
    [][/\ \A k \in DOMAIN images : k \in DOMAIN images' /\ images'[k] = images[k]
       /\ (/\ settled'.task.kind = "save"
           /\ settled'.outcome = "done"
           /\ KeyOfRef(settled'.task.id) \in DOMAIN images)
              => /\ images' = images
                 /\ settled'.how = "resolve"
                 /\ settled'.value = Bool(FALSE)
       /\ (/\ settled'.task.kind = "get"
           /\ settled'.task.stage = "db"
           /\ settled'.outcome = "done"
           /\ KeyOfRef(settled'.task.id) \in DOMAIN images)
              => settled'.value = RecordOf(images, KeyOfRef(settled'.task.id))]_vars

\* a write of the bytes as image/jpeg has resolved with false, and the record
\* written first, as image/png, is the one stored
C12_Witness ==
    /\ settled.task.kind = "save"
    /\ settled.task.mime = Str(S("image/jpeg"))
    /\ settled.value = Bool(FALSE)
    /\ KeyOfRef(settled.task.id) \in DOMAIN images
    /\ images[KeyOfRef(settled.task.id)].mime = Str(S("image/png"))

\* the step is a save that started a write to the image store
SaveStartsWrite ==
    /\ last'.op = "save"
    /\ Len(tasks') = Len(tasks) + 1
    /\ tasks'[Len(tasks')].kind = "save"

\* the save has written snapshot as the current one and as the last entry of
\* the history, and it carries the reference ref
Persisted(ls, snapshot, history, ref) ==
    /\ LS_KEY \in DOMAIN ls
    /\ RefOf(snapshot) = ref
    /\ history # <<>>
    /\ history[Len(history)] = snapshot

\* the promise is one of _saveImageToDB or _getImageFromDB
OfStore(promise) ==
    promise.task.kind \in {"save", "get"} /\ promise.task.stage = "db"

\* C13: a failure of the image store does not reach the editing flow: an
\* operation that cannot open the database or whose request fails resolves
\* with null instead of rejecting, raises nothing in the page and leaves
\* localStorage as the save wrote it; the save that starts a write completes
\* and has persisted the snapshot and the history
C13_StoreFailureContained ==
    [][/\ OfStore(settled') => settled'.how = "resolve"
       /\ (OfStore(settled') /\ settled'.outcome # "done")
              => /\ settled'.value = Null
                 /\ ~last'.threw
                 /\ localStorage' = localStorage
                 /\ images' = images
       /\ SaveStartsWrite
              => /\ ~last'.threw
                 /\ \A after \in {localStorage'} :
                        Persisted(after, SnapshotIn(after), HistoryIn(after),
                                  tasks'[Len(tasks')].id)]_vars

\* the database could not be opened for the write of a save: nothing is
\* stored, and the snapshot with the reference is the current one and the
\* last of the history
C13_Witness ==
    /\ settled.task.kind = "save"
    /\ settled.outcome = "open"
    /\ settled.value = Null
    /\ KeyOfRef(settled.task.id) \notin DOMAIN images
    /\ Persisted(localStorage, SnapshotIn(localStorage), HistoryIn(localStorage),
                 settled.task.id)

\* C19: every restore that has started finishes: whenever current_restoring
\* is true, the read and the fetch of the image settle, the callback of
\* finally calls preview() and current_restoring is false again.  It holds
\* of SpecAssetsFair, where every snapshot is one that a save wrote, and
\* fails of SpecStoredFair, where the restore of init2 raises over a
\* snapshot record that is no object and leaves the flag set
C19_RestoreFinishes == current_restoring ~> ~current_restoring

\* a restore waits for the read of the image it refers to
RestoreWaits ==
    /\ current_restoring
    /\ \E i \in 1..Len(tasks) : tasks[i].kind = "get" /\ tasks[i].stage = "db"


\* the fields of slot s but its text
StyleOf(s) == IF IsObj(s) THEN DelKey(s[2], "text") ELSE <<>>

\* the step is a change event whose handler resolved the settings once, for
\* a text label whose lines are styled independently
IndependentResolve ==
    /\ last'.op = "save"
    /\ ~last'.threw
    /\ form'["sync_font_settings"] # Bool(TRUE)
    /\ CheckedVal(form', "print_type") # Str(S("shipping"))
    /\ IsArr(fontSettingsPerLine)
    /\ IsArr(fontSettingsPerLine')

\* slot j is the selected line, before or after the resolve
IsSelected(j) ==
    Str(S(ToString(j - 1))) \in {form["lineSelect"], form'["lineSelect"]}

\* the style of the slot before slot j, before or after the resolve
PrecedingStyles(j) ==
    {StyleOf(fontSettingsPerLine'[2][j - 1])}
        \cup (IF j - 1 <= Len(fontSettingsPerLine[2])
              THEN {StyleOf(fontSettingsPerLine[2][j - 1])} ELSE {})

\* C21: when a resolve in independent mode makes the sequence longer, every
\* new slot has the style of the slot before it, or the current style when
\* the new slot is the selected line or is the first slot
C21_NewSlotsInherit ==
    [][IndependentResolve =>
          \A j \in (Len(fontSettingsPerLine[2]) + 1)..Len(fontSettingsPerLine'[2]) :
              IF IsSelected(j) \/ j = 1
              THEN StyleOf(fontSettingsPerLine'[2][j]) = CurrentFont(form')[2]
              ELSE StyleOf(fontSettingsPerLine'[2][j]) \in PrecedingStyles(j)]_vars

\* the settings of a shipping label: two slots, named after the sections
ShippingResolved(fsl) ==
    /\ IsArr(fsl)
    /\ Len(fsl[2]) = 2
    /\ \A j \in 1..2 : IsObj(fsl[2][j])
    /\ GetKey(fsl[2][1][2], "text") = Str(S("Sender section"))
    /\ GetKey(fsl[2][2][2], "text") = Str(S("Recipient section"))

\* C22: while the print type is shipping the sequence has exactly two slots
\* whose texts are 'Sender section' and 'Recipient section', whatever the
\* label text is and however long the sequence was
C22_ShippingTwoSlots ==
    CheckedVal(form, "print_type") = Str(S("shipping"))
        => ShippingResolved(fontSettingsPerLine)

\* the print type was switched to shipping over a text label of three lines
C22_Witness ==
    /\ last.op = "save"
    /\ CheckedVal(form, "print_type") = Str(S("shipping"))
    /\ Len(SplitLines(form["label_text"][2])) = 3
    /\ Len(ReadHistory(localStorage)[2]) >= 2
    /\ \E prev \in {ReadHistory(localStorage)[2][Len(ReadHistory(localStorage)[2]) - 1]} :
           /\ GetKey(prev[2], "print_type") = Str(S("text"))
           /\ Len(StoredLines(prev)[2]) = 3
    /\ ShippingResolved(fontSettingsPerLine)

\* the selected line, as the resolve of the step reads it, is the last slot
LastIsSelected ==
    /\ Len(fontSettingsPerLine[2]) >= 1
    /\ form["lineSelect"] = Str(S(ToString(Len(fontSettingsPerLine[2]) - 1)))

\* C23: in independent mode the record of the selected line is replaced by
\* the live style before the sequence is made longer, so the slot created
\* right after the selected line has the live style
C23_SelectedReplacedFirst ==
    [][(/\ IndependentResolve
        /\ LastIsSelected
        /\ Len(fontSettingsPerLine'[2]) > Len(fontSettingsPerLine[2]))
       => StyleOf(fontSettingsPerLine'[2][Len(fontSettingsPerLine[2]) + 1])
              = CurrentFont(form')[2]]_vars

\* C24: a resolve in independent mode overwrites the record of the selected
\* line only: every other slot that is there before and after it keeps all
\* its fields but the text
C24_OthersKept ==
    [][IndependentResolve =>
          \A j \in 1..Len(fontSettingsPerLine[2]) :
              (/\ j <= Len(fontSettingsPerLine'[2])
               /\ form["lineSelect"] # Str(S(ToString(j - 1))))
              => StyleOf(fontSettingsPerLine'[2][j]) = StyleOf(fontSettingsPerLine[2][j])]_vars

\* a change event has put the live style into the selected line and left
\* another line with a style of its own
C24_Witness ==
    /\ last.op = "save"
    /\ form["sync_font_settings"] = Bool(FALSE)
    /\ Len(fontSettingsPerLine[2]) >= 2
    /\ form["lineSelect"] = Str(S("1"))
    /\ StyleOf(fontSettingsPerLine[2][2]) = CurrentFont(form)[2]
    /\ StyleOf(fontSettingsPerLine[2][1]) # CurrentFont(form)[2]

\* the snapshot stored under LS_KEY in ls
CurrentSnapshot(ls) == JSONParse(getItem(ls, LS_KEY)).v

\* C25: once an undo that went back to a snapshot has settled, the per-line
\* settings in memory are those stored in that snapshot
C25_UndoRestoresLines ==
    [][(/\ last'.op = "undo"
        /\ ~last'.threw
        /\ ~current_restoring'
        /\ localStorage' # localStorage
        /\ form'["sync_font_settings"] # Bool(TRUE))
       => fontSettingsPerLine' = StoredLines(CurrentSnapshot(localStorage'))]_vars

\* the fields a slot carries: the style and the text
SlotFields == {"font", "size", "inverted", "checkbox", "align", "line_spacing", "color", "text"}

\* C28: after every call of setFontSettingsPerLine, in any mode and from any
\* prior state, every slot of the sequence carries all the style fields
\* and the text
C28_SlotsComplete ==
    (~last.threw /\ IsArr(fontSettingsPerLine))
        => \A j \in 1..Len(fontSettingsPerLine[2]) :
               /\ IsObj(fontSettingsPerLine[2][j])
               /\ \A k \in SlotFields : HasKey(fontSettingsPerLine[2][j][2], k)

\* C27: once the restore of a snapshot that carries no image reference has
\* settled, no file is attached to the drop zone
C27_NoReferenceNoAsset ==
    [][(/\ last'.op = "undo"
        /\ ~last'.threw
        /\ localStorage' # localStorage
        /\ ~current_restoring'
        /\ ~Truthy(GetKey(CurrentSnapshot(localStorage')[2], "image_ref")))
       => files' = <<>>]_vars
\* the restores have run to their end: the last step settled a fetch and no
\* read is left
RestoresDone ==
    /\ last.op = "settle"
    /\ settled.task.kind = "get"
    /\ settled.task.stage = "fetch"
    /\ ~Reading

\* the file attached is the one the snapshot refers to: it has the name of
\* the snapshot and the bytes stored under its reference
AttachedIs(snapshot) ==
    /\ Len(files) = 1
    /\ files[1].name = GetKey(snapshot[2], "image_name")
    /\ KeyOfRef(RefOf(snapshot)) \in DOMAIN images
    /\ files[1].b64 = images[KeyOfRef(RefOf(snapshot))].b64

\* C26: when restores that each refer to an image were started one after the
\* other and all their fetches have completed, the image attached is the one
\* of the current persisted snapshot, which the later restore went back to
C26_LaterRestoreWins ==
    (RestoresDone /\ Truthy(RefOf(CurrentSnapshot(localStorage))))
        => AttachedIs(CurrentSnapshot(localStorage))

\* #statusPanel shows status for requests of type
Shows(type, status) == statusPanel = [type |-> type, status |-> status]

\* C29: whenever gen_label has set the status to pending for a preview or
\* for a print, the panel later shows success or error for that type of
\* request
C29_PendingEnds ==
    \A type \in {"preview", "printing"} :
        Shows(type, "pending") ~> (Shows(type, "success") \/ Shows(type, "error"))

\* the timeout that startFastPrinterPolling set together with interval scan
OwnTimeout(scan) ==
    [id |-> scan.id + 1, fn |-> "startNormalPrinterPolling", delay |-> SCAN_FAST_DURATION]

\* C30: fast polling that a power toggle has started goes back to normal
\* polling only when the timeout set by that same toggle runs, never when a
\* timeout of an earlier toggle does
C30_FastUntilOwnTimeout ==
    [][(/\ printerScanTimer.interval = SCAN_FAST_INTERVAL
        /\ printerScanTimer'.interval = SCAN_NORMAL_INTERVAL)
       => OwnTimeout(printerScanTimer) \in timeouts \ timeouts']_vars

=============================================================================
